---- MODULE Spec2Model ----
(***************************************************************************)
(* genai-polyinfer: the request orchestration engine.                      *)
(*                                                                         *)
(* The model follows the orchestrator with intent selection and key        *)
(* fallback (Orchestrator, say), the cache module (makeKey, getCache,      *)
(* setCache, clearCache), the metrics module (recordSuccess,               *)
(* recordFailure) and the configuration module (loadConfig,                *)
(* validateIntent, the process-wide configuration slot).                   *)
(*                                                                         *)
(* JavaScript runs one handler at a time: an action of the model is the    *)
(* code that runs between two suspension points, the only suspension       *)
(* points being the transport calls (await httpRequest) and the            *)
(* continuation of Promise.any.                                            *)
(***************************************************************************)
EXTENDS Integers, Sequences, FiniteSets, TLC

\* ------------------------------------------------------------------ bounds
\* Number of say() invocations in one behaviour of Spec.
MaxSays == 1
\* Number of say() invocations in one behaviour of SpecFlow, and the last
\* value of its clock (Date.now()).
MaxFlowSays == 2
MaxTime == 2
\* The clock of the cache-only specification runs from 0 to MaxCacheTime.
MaxCacheTime == 4
\* The longest provider list the selector is applied to.
MaxProviders == 3
\* The most credentials a provider has when its key policy is applied.
MaxKeys == 3
MaxOps == 3
MaxSnaps == 2
MaxInstanceSays == 3

\* ------------------------------------------------------------ basic values
\* undefined / null / absent is the empty tuple, a present value v is <<v>>.
None == <<>>
Some(v) == <<v>>

Min(a, b) == IF a < b THEN a ELSE b
Max(a, b) == IF a > b THEN a ELSE b

\* A JavaScript Map / plain object used as a dictionary.
EmptyMap == [x \in {} |-> x]
MapHas(m, k) == k \in DOMAIN m
MapSet(m, k, v) == [x \in (DOMAIN m) \cup {k} |-> IF x = k THEN v ELSE m[x]]
MapDelete(m, k) == [x \in (DOMAIN m) \ {k} |-> m[x]]

\* Mutant of JsSlice: the end position is included.
JsSlice_Inclusive(s, start, end) ==
    LET len  == Len(s)
        from == IF start < 0 THEN Max(len + start, 0) ELSE Min(start, len)
        to   == IF end < 0 THEN Max(len + end + 1, 0) ELSE Min(end + 1, len)
    IN  SubSeq(s, from + 1, to)

\* Array.prototype.slice(start, end) on a 0-based array held as a sequence.
JsSlice(s, start, end) ==
    LET len  == Len(s)
        from == IF start < 0 THEN Max(len + start, 0) ELSE Min(start, len)
        to   == IF end < 0 THEN Max(len + end, 0) ELSE Min(end, len)
    IN  SubSeq(s, from + 1, to)

\* ------------------------------------------------------------------- cache
\* Strings that are concatenated are sequences of tokens; '' is <<>>.
\* Mutant of makeKey: the input is left out of the key.
makeKey_NoInput(input, provider, model) ==
    IF model # <<>>
    THEN <<provider, "::">> \o model
    ELSE <<provider, "::">>

makeKey(input, provider, model) ==
    IF model # <<>>
    THEN <<provider, "::">> \o model \o <<"::">> \o input
    ELSE <<provider, "::">> \o input

\* getCache at clock t: the value returned and the map it leaves.
\* Mutant of getCache: an entry is expired as soon as the clock reaches expires.
getCache_Strict(c, key, t) ==
    IF ~MapHas(c, key) THEN [value |-> None, cache |-> c]
    ELSE IF t >= c[key].expires
         THEN [value |-> None, cache |-> MapDelete(c, key)]
         ELSE [value |-> Some(c[key].value), cache |-> c]

\* Mutant of getCache: an expired entry is reported absent but stays in the map.
getCache_NoEvict(c, key, t) ==
    IF ~MapHas(c, key) THEN [value |-> None, cache |-> c]
    ELSE IF t > c[key].expires
         THEN [value |-> None, cache |-> c]
         ELSE [value |-> Some(c[key].value), cache |-> c]

getCache(c, key, t) ==
    IF ~MapHas(c, key) THEN [value |-> None, cache |-> c]
    ELSE IF t > c[key].expires
         THEN [value |-> None, cache |-> MapDelete(c, key)]
         ELSE [value |-> Some(c[key].value), cache |-> c]

\* Mutant of setCache: the ttl is not added to the clock.
setCache_NoTtl(c, key, value, ttl, t) ==
    MapSet(c, key, [value |-> value, expires |-> t])

setCache(c, key, value, ttl, t) ==
    MapSet(c, key, [value |-> value, expires |-> t + ttl])

\* Mutant of clearCache: nothing is removed.
clearCache_Noop(c) == c

clearCache(c) == EmptyMap

\* ----------------------------------------------------------------- metrics
ZeroStats == [success |-> 0, failure |-> 0, latency |-> 0, count |-> 0]

StatsOf(M, provider) == IF MapHas(M, provider) THEN M[provider] ELSE ZeroStats

recordSuccess(M, provider, latency) ==
    LET s == StatsOf(M, provider)
    IN  MapSet(M, provider, [s EXCEPT !.success = @ + 1,
                                      !.latency = @ + latency,
                                      !.count = @ + 1])

recordFailure_NoLatency(M, provider, latency) ==
    LET s == StatsOf(M, provider)
    IN  MapSet(M, provider, [s EXCEPT !.failure = @ + 1,
                                      !.count = @ + 1])

recordFailure(M, provider, latency) ==
    LET s == StatsOf(M, provider)
    IN  MapSet(M, provider, [s EXCEPT !.failure = @ + 1,
                                      !.latency = @ + latency,
                                      !.count = @ + 1])

resetMetrics(M) == EmptyMap

\* JSON.stringify of the metrics object: the text lists, per key, the four
\* numbers of its stats; JSON.parse builds new objects from the text.
JsonStringify(M) ==
    {<<p, <<M[p].success, M[p].failure, M[p].latency, M[p].count>>>> : p \in DOMAIN M}

JsonParse(text) ==
    [p \in {e[1] : e \in text} |->
        LET e == CHOOSE e \in text : e[1] = p
        IN  [success |-> e[2][1], failure |-> e[2][2], latency |-> e[2][3], count |-> e[2][4]]]

\* What a caller holds after getMetrics: objects of its own, or the METRICS
\* object itself.
getMetrics_Shallow(M) == [ref |-> "METRICS", value |-> EmptyMap]

getMetrics(M) == [ref |-> "own", value |-> JsonParse(JsonStringify(M))]

\* ----------------------------------------------------------- configuration
\* An intent argument: undefined, one string, or an array of strings.
NoIntent == [kind |-> "undefined", v |-> <<>>]
IntentStr(x) == [kind |-> "string", v |-> <<x>>]
IntentArr(a) == [kind |-> "array", v |-> a]

\* if (intent): undefined and '' are falsy, every array is truthy.
IntentGiven(intent) ==
    \/ intent.kind = "array"
    \/ intent.kind = "string" /\ intent.v # <<"">>

\* Array.isArray(x) ? x : [x]
IntentArray(intent) == intent.v

\* ProviderSchema after parsing: every optional field is None or Some(v).
BaseProvider ==
    [name |-> "base",
     api_key_from_env |-> <<>>,
     request_header |-> None,
     intent |-> NoIntent,
     api_key_fallback_strategy |-> "first",
     api_key_fallback_count |-> 2,
     api_key_fallback_indices |-> None,
     api_key_fallback_range_start |-> None,
     api_key_fallback_range_end |-> None,
     api_key_fallback_subset_count |-> None,
     api_key_fallback_subset_from |-> None]

\* process.env as the tests set it: a variable that is unset is not in the map.
ProcessEnv ==
    [v \in {"OPENAI_API_KEY", "ANTHROPIC_KEY_1", "ANTHROPIC_KEY_2", "EMPTY_KEY"} |->
        CASE v = "OPENAI_API_KEY" -> "test-openai-key"
          [] v = "ANTHROPIC_KEY_1" -> "test-anthropic-key-1"
          [] v = "ANTHROPIC_KEY_2" -> "test-anthropic-key-2"
          [] OTHER -> ""]

OpenAI ==
    [BaseProvider EXCEPT !.name = "openai",
                         !.api_key_from_env = <<"OPENAI_API_KEY">>]

Anthropic ==
    [BaseProvider EXCEPT !.name = "anthropic",
                         !.api_key_from_env = <<"ANTHROPIC_KEY_1", "EMPTY_KEY", "ANTHROPIC_KEY_2">>,
                         !.api_key_fallback_strategy = "all"]

\* A local model: no credential source.
LocalModel ==
    [BaseProvider EXCEPT !.name = "local"]

\* A provider whose credential variables are empty or unset, with a header
\* template that asks for the credential.
Unkeyed ==
    [BaseProvider EXCEPT !.name = "unkeyed",
                         !.api_key_from_env = <<"EMPTY_KEY", "UNSET_KEY">>,
                         !.request_header = Some([h \in {"x-api-key"} |-> <<"{api_key}">>]),
                         !.api_key_fallback_strategy = "all"]

\* A provider with a credential and a key-trial list of length 0.
NoTrial ==
    [BaseProvider EXCEPT !.name = "notrial",
                         !.api_key_from_env = <<"OPENAI_API_KEY">>,
                         !.api_key_fallback_strategy = "count",
                         !.api_key_fallback_count = 0]

\* Providers that declare intents.
ChatProvider ==
    [OpenAI EXCEPT !.name = "chat", !.intent = IntentStr("chat")]

CodeProvider ==
    [OpenAI EXCEPT !.name = "coder", !.intent = IntentArr(<<"code", "chat">>)]

VisionProvider ==
    [OpenAI EXCEPT !.name = "vision", !.intent = IntentStr("vision")]

\* ConfigSchema after parsing.
BaseConfig ==
    [providers |-> <<OpenAI, Anthropic>>,
     all_intents |-> None,
     mode |-> "synchronous",
     consecutive_success |-> 5,
     logging |-> TRUE,
     metrics |-> TRUE,
     cache |-> [enabled |-> TRUE, ttl |-> 1]]

\* The configurations say is called with; Configs[i] is named by its index i.
Configs ==
    << BaseConfig,
       [BaseConfig EXCEPT !.mode = "concurrent"],
       [BaseConfig EXCEPT !.providers = <<NoTrial, LocalModel>>],
       [BaseConfig EXCEPT !.providers = <<NoTrial, LocalModel>>, !.mode = "concurrent"],
       [BaseConfig EXCEPT !.providers = <<>>],
       [BaseConfig EXCEPT !.providers = <<>>, !.mode = "concurrent"],
       [BaseConfig EXCEPT !.providers = <<OpenAI>>],
       [BaseConfig EXCEPT !.providers = <<OpenAI>>, !.mode = "concurrent"],
       [BaseConfig EXCEPT !.providers = <<ChatProvider, CodeProvider>>,
                          !.all_intents = Some(<<"chat", "code">>)],
       [BaseConfig EXCEPT !.providers = <<ChatProvider, CodeProvider>>,
                          !.all_intents = Some(<<"chat", "code">>),
                          !.mode = "concurrent"],
       [BaseConfig EXCEPT !.providers = <<ChatProvider, VisionProvider>>,
                          !.all_intents = Some(<<"chat", "code">>)],
       [BaseConfig EXCEPT !.providers = <<>>, !.mode = "invalid-mode"],
       [BaseConfig EXCEPT !.providers = <<Unkeyed, LocalModel>>],
       [BaseConfig EXCEPT !.providers = <<Unkeyed, LocalModel>>, !.mode = "concurrent"],
       [BaseConfig EXCEPT !.providers = <<ChatProvider, VisionProvider>>],
       [BaseConfig EXCEPT !.providers = <<ChatProvider, CodeProvider>>,
                          !.all_intents = Some(<<"chat", "code">>),
                          !.consecutive_success = 2,
                          !.cache = [enabled |-> FALSE, ttl |-> 1]],
       [BaseConfig EXCEPT !.providers = <<ChatProvider, CodeProvider>>,
                          !.all_intents = Some(<<"chat", "code">>),
                          !.consecutive_success = 1,
                          !.cache = [enabled |-> FALSE, ttl |-> 1]],
       [BaseConfig EXCEPT !.providers = <<OpenAI>>, !.metrics = FALSE],
       [BaseConfig EXCEPT !.providers = <<OpenAI>>,
                          !.cache = [enabled |-> FALSE, ttl |-> 1]],
       [BaseConfig EXCEPT !.providers = <<LocalModel>>, !.mode = "concurrent"] >>

\* Mutant of loadConfig: the schema is parsed, the provider intents are not
\* checked against all_intents.
loadConfig_SchemaOnly(cfg) ==
    [ok |-> cfg.mode \in {"synchronous", "concurrent"}, config |-> cfg]

\* Mutant of loadConfig: nothing is validated.
loadConfig_Lenient(cfg) == [ok |-> TRUE, config |-> cfg]

\* ConfigSchema.parse followed by the provider-intent check of loadConfig.
loadConfig(cfg) ==
    LET schemaOk == cfg.mode \in {"synchronous", "concurrent"}
        intentsOk ==
            \/ cfg.all_intents = None
            \/ \A i \in 1..Len(cfg.providers) :
                 LET pi == cfg.providers[i].intent
                 IN  IntentGiven(pi) =>
                       \A k \in 1..Len(IntentArray(pi)) :
                          \E a \in 1..Len(cfg.all_intents[1]) :
                             cfg.all_intents[1][a] = IntentArray(pi)[k]
    IN  [ok |-> schemaOk /\ intentsOk, config |-> cfg]

\* Mutant of validateIntent: every intent is accepted.
validateIntent_Skip(intent, config) == TRUE

\* validateIntent: TRUE when it returns, FALSE when it throws.
validateIntent(intent, config) ==
    \/ ~IntentGiven(intent)
    \/ config.all_intents = None
    \/ \A k \in 1..Len(IntentArray(intent)) :
          \E a \in 1..Len(config.all_intents[1]) :
             config.all_intents[1][a] = IntentArray(intent)[k]

\* -------------------------------------------------------- provider selection
\* matchCount of one provider for the requested intents.
RECURSIVE CountMatches(_, _, _)
CountMatches(intentArray, providerIntents, k) ==
    IF k > Len(intentArray) THEN 0
    ELSE (IF \E a \in 1..Len(providerIntents) : providerIntents[a] = intentArray[k]
          THEN 1 ELSE 0)
         + CountMatches(intentArray, providerIntents, k + 1)

matchCount(provider, intent) ==
    IF IntentGiven(provider.intent)
    THEN CountMatches(IntentArray(intent), IntentArray(provider.intent), 1)
    ELSE 0

\* The positions 1..n with score[i] = s, in increasing order.
RECURSIVE WithScore(_, _, _)
WithScore(score, s, i) ==
    IF i > Len(score) THEN <<>>
    ELSE (IF score[i] = s THEN <<i>> ELSE <<>>) \o WithScore(score, s, i + 1)

\* sort by matchCount descending, then by position; then drop matchCount 0.
RECURSIVE SortedFrom(_, _)
SortedFrom(score, s) ==
    IF s < 1 THEN <<>>
    ELSE WithScore(score, s, 1) \o SortedFrom(score, s - 1)

\* Mutant of getFilteredProviders: no fall back to the full list.
getFilteredProviders_NoFallback(config, intent) ==
    LET n == Len(config.providers)
        all == [i \in 1..n |-> i]
    IN  IF ~IntentGiven(intent) THEN all
        ELSE LET score == [i \in 1..n |-> matchCount(config.providers[i], intent)]
             IN  SortedFrom(score, Len(IntentArray(intent)))

\* getFilteredProviders: the positions in config.providers to attempt, in order.
getFilteredProviders(config, intent) ==
    LET n == Len(config.providers)
        all == [i \in 1..n |-> i]
    IN  IF ~IntentGiven(intent) THEN all
        ELSE LET score == [i \in 1..n |-> matchCount(config.providers[i], intent)]
                 filtered == SortedFrom(score, Len(IntentArray(intent)))
             IN  IF Len(filtered) > 0 THEN filtered ELSE all

\* --------------------------------------------------------- key fallback policy
\* Mutant of CollectKeys: an empty value counts as a credential.
RECURSIVE CollectKeys_KeepEmpty(_, _, _)
CollectKeys_KeepEmpty(env, vars, i) ==
    IF i > Len(vars) THEN <<>>
    ELSE (IF MapHas(env, vars[i]) THEN <<env[vars[i]]>> ELSE <<>>)
         \o CollectKeys_KeepEmpty(env, vars, i + 1)

\* The credentials of a provider: the non-empty values of its environment
\* variables, in the configured order.
RECURSIVE CollectKeys(_, _, _)
CollectKeys(env, vars, i) ==
    IF i > Len(vars) THEN <<>>
    ELSE (IF MapHas(env, vars[i]) /\ env[vars[i]] # ""
          THEN <<env[vars[i]]>> ELSE <<>>)
         \o CollectKeys(env, vars, i + 1)

availableApiKeys(provider) == CollectKeys(ProcessEnv, provider.api_key_from_env, 1)

\* Mutant of AtIndices: the last position counts as out of range.
RECURSIVE AtIndices_OffByOne(_, _, _)
AtIndices_OffByOne(keys, indices, i) ==
    IF i > Len(indices) THEN <<>>
    ELSE (IF indices[i] >= 0 /\ indices[i] < Len(keys) - 1
          THEN <<keys[indices[i] + 1]>> ELSE <<>>)
         \o AtIndices_OffByOne(keys, indices, i + 1)

\* indices.filter(in range).map(i => keys[i])
RECURSIVE AtIndices(_, _, _)
AtIndices(keys, indices, i) ==
    IF i > Len(indices) THEN <<>>
    ELSE (IF indices[i] >= 0 /\ indices[i] < Len(keys)
          THEN <<keys[indices[i] + 1]>> ELSE <<>>)
         \o AtIndices(keys, indices, i + 1)

\* The pool the subset strategy shuffles.
SubsetPool(provider, keys) ==
    IF /\ provider.api_key_fallback_strategy = "subset"
       /\ provider.api_key_fallback_subset_count # None
       /\ provider.api_key_fallback_subset_count # Some(0)
       /\ provider.api_key_fallback_subset_from # None
    THEN JsSlice(keys, 0, Min(provider.api_key_fallback_subset_from[1], Len(keys)))
    ELSE <<>>

\* Mutant of Perms: a draw with replacement.
Perms_WithRepeats(n) == [1..n -> 1..n]

\* The permutations of 1..n: what sort(() => 0.5 - Math.random()) can produce.
Perms(n) == {f \in [1..n -> 1..n] : \A a, b \in 1..n : f[a] = f[b] => a = b}

\* keysToTry of tryProvider; perm is the outcome of the random shuffle.
KeysToTry(provider, keys, perm) ==
    LET strategy == provider.api_key_fallback_strategy
        first == <<keys[1]>>
    IN  CASE strategy = "first" -> JsSlice(keys, 0, 1)
          [] strategy = "all" -> keys
          [] strategy = "count" -> JsSlice(keys, 0, provider.api_key_fallback_count)
          [] strategy = "indices" ->
               IF /\ provider.api_key_fallback_indices # None
                  /\ Len(provider.api_key_fallback_indices[1]) > 0
               THEN AtIndices(keys, provider.api_key_fallback_indices[1], 1)
               ELSE first
          [] strategy = "range" ->
               IF /\ provider.api_key_fallback_range_start # None
                  /\ provider.api_key_fallback_range_end # None
               THEN JsSlice(keys,
                            Max(0, provider.api_key_fallback_range_start[1]),
                            Min(Len(keys), provider.api_key_fallback_range_end[1] + 1))
               ELSE first
          [] strategy = "subset" ->
               IF /\ provider.api_key_fallback_subset_count # None
                  /\ provider.api_key_fallback_subset_count # Some(0)
                  /\ provider.api_key_fallback_subset_from # None
               THEN LET pool == SubsetPool(provider, keys)
                        shuffled == [i \in 1..Len(pool) |-> pool[perm[i]]]
                    IN  JsSlice(shuffled, 0,
                                Min(provider.api_key_fallback_subset_count[1], Len(keys)))
               ELSE first
          [] OTHER -> first

\* The shuffles one say can draw: for every configured provider a permutation
\* of its subset pool (the empty permutation when it has none).
Shuffles(config) ==
    LET n == Len(config.providers)
        pool(i) == SubsetPool(config.providers[i], availableApiKeys(config.providers[i]))
        sizes == {Len(pool(i)) : i \in 1..n}
    IN  {f \in [1..n -> UNION {Perms(k) : k \in sizes}] :
            \A i \in 1..n : Len(f[i]) = Len(pool(i))}

\* ---------------------------------------------------------------- transport
\* What httpRequest can do for a request sent to a provider: resolve to
\* {ok, status, body} or throw. The body names the provider that answered;
\* its text is what extractText finds in it (None: nothing extractable).
HttpResponse(ok, status, src, text) ==
    [kind |-> "response", ok |-> ok, status |-> status,
     body |-> [src |-> src, text |-> text]]

Responses(name) ==
    { HttpResponse(TRUE, 200, name, Some("hello")),
      HttpResponse(TRUE, 200, name, Some("")),
      HttpResponse(TRUE, 200, name, None),
      HttpResponse(FALSE, 500, name, Some("hello")),
      [kind |-> "throw", ok |-> FALSE, status |-> 0,
       body |-> [src |-> name, text |-> None]] }

\* extractText(res.body, provider.responsePath)
extractText(body) == body.text

\* !extracted: undefined and '' are falsy.
Falsy(extracted) == extracted = None \/ extracted = Some("")

\* ------------------------------------------------------------------ headers
\* A header value is the sequence of the pieces of its string: the literal
\* '{api_key}' is one piece, a credential is one piece, '' is no piece.
Placeholder == <<"{api_key}">>
ContentType == <<"application/json">>

\* { 'content-type': 'application/json', ...(provider.request_header || {}) }
SpreadHeaders(provider) ==
    LET template == IF provider.request_header = None
                    THEN EmptyMap ELSE provider.request_header[1]
    IN  [h \in {"content-type"} \cup DOMAIN template |->
            IF h \in DOMAIN template THEN template[h] ELSE ContentType]

\* Mutant of buildHeaders: the bearer header is set whenever there is a
\* credential.
buildHeaders_AlwaysBearer(provider, apiKey) ==
    LET headers == SpreadHeaders(provider)
        replaced == [h \in DOMAIN headers |->
                        IF headers[h] = Placeholder THEN <<apiKey[1]>> ELSE headers[h]]
    IN  IF apiKey = None THEN headers
        ELSE MapSet(replaced, "authorization", <<"Bearer ", apiKey[1]>>)

\* The headers tryRequest hands to httpRequest; apiKey is None for null.
buildHeaders(provider, apiKey) ==
    LET headers == SpreadHeaders(provider)
        placeholderFound == \E h \in DOMAIN headers : headers[h] = Placeholder
        replaced == [h \in DOMAIN headers |->
                        IF headers[h] = Placeholder THEN <<apiKey[1]>> ELSE headers[h]]
        authorization == MapHas(headers, "authorization") /\ headers["authorization"] # <<>>
    IN  IF apiKey = None THEN headers
        ELSE IF ~placeholderFound /\ ~authorization
        THEN MapSet(replaced, "authorization", <<"Bearer ", apiKey[1]>>)
        ELSE replaced

\* ------------------------------------------------------------- orchestrator
QUIRKY_MESSAGES ==
    << "Music is too loud.. come again?",
       "Say again ... s l o w l y",
       "I'm sorry, I didn't catch that.",
       "Could you repeat that?",
       "Pardon me?" >>

\* Result: raw_response is None for null.
Result(raw, text) == [raw_response |-> raw, text |-> text]

\* Math.random(), in hundredths: the draws the model takes.
RandomDraws == {0, 99}

\* The failure Result of runSequential / runConcurrent for the draw r:
\* QUIRKY_MESSAGES[Math.floor(r * QUIRKY_MESSAGES.length)], raw_response null.
QuirkyResult(r) ==
    Result(None, QUIRKY_MESSAGES[((r * Len(QUIRKY_MESSAGES)) \div 100) + 1])

\* One call of tryProvider: st is "new" (not called), "wait" (awaiting
\* httpRequest), "ok" (returned res) or "fail" (threw). keys is keysToTry, k the
\* position in keys of the key of the request in flight (0: no key attached),
\* start the clock when the request in flight was issued (0 when none is). rank is the order in which
\* the tasks of one say returned (0: has not returned). reqs counts the
\* requests handed to httpRequest and hdr is the headers of the last one.
NewTask ==
    [st |-> "new", keys |-> <<>>, k |-> 0, start |-> 0, res |-> None, rank |-> 0,
     reqs |-> 0, hdr |-> EmptyMap]

\* Mutant of tryRequest: a failed request is recorded once, whatever made it
\* fail.
tryRequest_RecordOnce(M, config, provider, start, t, out) ==
    LET name == provider.name
        latency == t - start
        rf(m) == IF config.metrics THEN recordFailure(m, name, latency) ELSE m
    IN  IF out.kind = "throw" \/ ~out.ok \/ Falsy(extractText(out.body))
        THEN [ok |-> FALSE, res |-> None, metrics |-> rf(M)]
        ELSE [ok |-> TRUE,
              res |-> Some(Result(Some(out.body), extractText(out.body)[1])),
              metrics |-> IF config.metrics
                          THEN recordSuccess(M, name, latency) ELSE M]

\* Mutant of tryRequest: an empty extracted text is returned as a success.
tryRequest_NoTextCheck(M, config, provider, start, t, out) ==
    LET name == provider.name
        latency == t - start
        caught == IF config.metrics THEN recordFailure(M, name, latency) ELSE M
        thrown == IF config.metrics
                  THEN recordFailure(recordFailure(M, name, latency), name, latency)
                  ELSE M
    IN  IF out.kind = "throw"
        THEN [ok |-> FALSE, res |-> None, metrics |-> caught]
        ELSE IF ~out.ok \/ extractText(out.body) = None
        THEN [ok |-> FALSE, res |-> None, metrics |-> thrown]
        ELSE [ok |-> TRUE,
              res |-> Some(Result(Some(out.body), extractText(out.body)[1])),
              metrics |-> IF config.metrics
                          THEN recordSuccess(M, name, latency) ELSE M]

\* tryRequest after httpRequest settled with out at clock t, for a request
\* issued at clock start: the metrics it leaves and what it returns or throws.
tryRequest(M, config, provider, start, t, out) ==
    LET name == provider.name
        latency == t - start
        \* the catch block recorded the failure
        caught == IF config.metrics THEN recordFailure(M, name, latency) ELSE M
        \* the try block recorded it before throwing to the catch block
        thrown == IF config.metrics
                  THEN recordFailure(recordFailure(M, name, latency), name, latency)
                  ELSE M
    IN  IF out.kind = "throw"
        THEN [ok |-> FALSE, res |-> None, metrics |-> caught]
        ELSE IF ~out.ok
        THEN [ok |-> FALSE, res |-> None, metrics |-> thrown]
        ELSE IF Falsy(extractText(out.body))
        THEN [ok |-> FALSE, res |-> None, metrics |-> thrown]
        ELSE [ok |-> TRUE,
              res |-> Some(Result(Some(out.body), extractText(out.body)[1])),
              metrics |-> IF config.metrics
                          THEN recordSuccess(M, name, latency) ELSE M]

\* Mutant of tryProviderStart: with no key to try the request is sent without
\* a credential, as for a provider that has none.
tryProviderStart_LocalOnEmpty(M, config, provider, perm, t) ==
    LET keys == availableApiKeys(provider)
        keysToTry == KeysToTry(provider, keys, perm)
    IN  IF Len(keys) > 0 /\ Len(keysToTry) > 0
        THEN [task |-> [NewTask EXCEPT !.st = "wait", !.keys = keysToTry,
                                       !.k = 1, !.start = t, !.reqs = 1,
                                       !.hdr = buildHeaders(provider, Some(keysToTry[1]))],
              metrics |-> M, sent |-> 1]
        ELSE [task |-> [NewTask EXCEPT !.st = "wait", !.start = t, !.reqs = 1,
                                       !.hdr = buildHeaders(provider, None)],
              metrics |-> M, sent |-> 1]

\* tryProvider up to its first suspension: the task, the metrics, and the
\* number of requests handed to the transport (0 or 1).
tryProviderStart(M, config, provider, perm, t) ==
    LET keys == availableApiKeys(provider)
        keysToTry == KeysToTry(provider, keys, perm)
    IN  IF Len(keys) > 0
        THEN IF Len(keysToTry) > 0
             THEN [task |-> [NewTask EXCEPT !.st = "wait", !.keys = keysToTry,
                                            !.k = 1, !.start = t, !.reqs = 1,
                                            !.hdr = buildHeaders(provider, Some(keysToTry[1]))],
                   metrics |-> M, sent |-> 1]
             ELSE [task |-> [NewTask EXCEPT !.st = "fail"],
                   metrics |-> IF config.metrics
                               THEN recordFailure(M, provider.name, 0) ELSE M,
                   sent |-> 0]
        ELSE [task |-> [NewTask EXCEPT !.st = "wait", !.start = t, !.reqs = 1,
                                       !.hdr = buildHeaders(provider, None)],
              metrics |-> M, sent |-> 1]

\* Mutant of tryProviderResume: the first key that fails makes the provider
\* fail, the keys after it are not tried.
tryProviderResume_AbortOnFail(M, config, provider, task, t, out) ==
    LET r == tryRequest(M, config, provider, task.start, t, out)
        aggregate == IF config.metrics
                     THEN recordFailure(r.metrics, provider.name, 0)
                     ELSE r.metrics
    IN  IF r.ok
        THEN [task |-> [task EXCEPT !.st = "ok", !.res = r.res, !.start = 0],
              metrics |-> r.metrics, sent |-> 0]
        ELSE [task |-> [task EXCEPT !.st = "fail", !.start = 0],
              metrics |-> aggregate, sent |-> 0]

\* Mutant of tryProviderResume: a credential that failed is tried again.
tryProviderResume_RetryKey(M, config, provider, task, t, out) ==
    LET r == tryRequest(M, config, provider, task.start, t, out)
        aggregate == IF config.metrics
                     THEN recordFailure(r.metrics, provider.name, 0)
                     ELSE r.metrics
    IN  IF r.ok
        THEN [task |-> [task EXCEPT !.st = "ok", !.res = r.res, !.start = 0],
              metrics |-> r.metrics, sent |-> 0]
        ELSE IF task.k = 0
        THEN [task |-> [task EXCEPT !.st = "fail", !.start = 0],
              metrics |-> aggregate, sent |-> 0]
        ELSE [task |-> [task EXCEPT !.start = t, !.reqs = @ + 1],
              metrics |-> r.metrics, sent |-> 1]

\* tryProvider resumed when the request in flight settled with out at clock t.
tryProviderResume(M, config, provider, task, t, out) ==
    LET r == tryRequest(M, config, provider, task.start, t, out)
        aggregate == IF config.metrics
                     THEN recordFailure(r.metrics, provider.name, 0)
                     ELSE r.metrics
    IN  IF r.ok
        THEN [task |-> [task EXCEPT !.st = "ok", !.res = r.res, !.start = 0],
              metrics |-> r.metrics, sent |-> 0]
        ELSE IF task.k = 0
        THEN [task |-> [task EXCEPT !.st = "fail", !.start = 0],
              metrics |-> aggregate, sent |-> 0]
        ELSE IF task.k < Len(task.keys)
        THEN [task |-> [task EXCEPT !.k = @ + 1, !.start = t, !.reqs = @ + 1,
                                    !.hdr = buildHeaders(provider, Some(task.keys[task.k + 1]))],
              metrics |-> r.metrics, sent |-> 1]
        ELSE [task |-> [task EXCEPT !.st = "fail", !.start = 0],
              metrics |-> aggregate, sent |-> 0]

\* One invocation of say(input, options): the Orchestrator it builds (cfg:
\* the index in Configs of its configuration, intent, orch: the call that
\* built it, counts: its
\* consecutiveCounts) and the progress of orchestrator.say(input). pc is "seq"
\* (inside runSequential), "conc" (inside runConcurrent, awaiting Promise.any),
\* "returned" (resolved to result) or "threw" (rejected). provs is the list
\* getFilteredProviders returned, tasks[i] the tryProvider call for provs[i],
\* first the task Promise.any fulfilled with (0: none yet). hit, sent, late,
\* afterClear and cut only observe: served from the cache, number of requests
\* handed to the transport, a task settled after the return, started with the
\* cache cleared and not written since, clearCache ran before the return.
NewCall ==
    [pc |-> "threw", cfg |-> 0, input |-> <<>>, intent |-> NoIntent,
     provs |-> <<>>, tasks |-> <<>>, result |-> None, first |-> 0,
     orch |-> 0, counts |-> EmptyMap, hit |-> FALSE, sent |-> 0, late |-> FALSE,
     afterClear |-> FALSE, doneAt |-> 0, given |-> None, cut |-> FALSE]

ConfigOf(call) == Configs[call.cfg]
ProviderAt(call, i) == ConfigOf(call).providers[call.provs[i]]
CacheKey(input) == makeKey(input, "global", <<>>)

\* Mutant of allFailed: the failure is rethrown instead of being turned into
\* the failure Result.
allFailed_Rethrow(call, r) ==
    [call EXCEPT !.pc = "threw"]

\* Mutant of allFailed: with no provider to try, an error is thrown instead of
\* the failure Result.
allFailed_NoProviders(call, r) ==
    IF Len(call.provs) = 0
    THEN [call EXCEPT !.pc = "threw"]
    ELSE [call EXCEPT !.pc = "returned", !.result = Some(QuirkyResult(r))]

\* The end of runSequential and the catch of runConcurrent: every provider
\* failed, say resolves to the failure Result; r is the random draw.
allFailed(call, r) ==
    [call EXCEPT !.pc = "returned", !.result = Some(QuirkyResult(r))]

\* Mutant of seqSuccess: the result is not cached when clearCache ran while
\* the call was in flight.
seqSuccess_SkipCleared(call, C, i, t) ==
    LET config == ConfigOf(call)
        name == ProviderAt(call, i).name
        result == call.tasks[i].res[1]
        n == (IF MapHas(call.counts, name) THEN call.counts[name] ELSE 0) + 1
        write == config.cache.enabled /\ ~call.cut
    IN  [call |-> [call EXCEPT !.pc = "returned",
                               !.result = Some(result),
                               !.counts = MapSet(@, name,
                                   IF n >= config.consecutive_success THEN 0 ELSE n)],
         cache |-> IF write
                   THEN setCache(C, CacheKey(call.input), result, config.cache.ttl, t)
                   ELSE C,
         wrote |-> write]

\* Mutant of seqSuccess: the result is cached whether or not caching is
\* enabled.
seqSuccess_AlwaysCache(call, C, i, t) ==
    LET config == ConfigOf(call)
        name == ProviderAt(call, i).name
        result == call.tasks[i].res[1]
        n == (IF MapHas(call.counts, name) THEN call.counts[name] ELSE 0) + 1
    IN  [call |-> [call EXCEPT !.pc = "returned",
                               !.result = Some(result),
                               !.counts = MapSet(@, name,
                                   IF n >= config.consecutive_success THEN 0 ELSE n)],
         cache |-> setCache(C, CacheKey(call.input), result, config.cache.ttl, t),
         wrote |-> TRUE]

\* runSequential once tryProvider of provs[i] returned: cache the result,
\* count the success, return it.
seqSuccess(call, C, i, t) ==
    LET config == ConfigOf(call)
        name == ProviderAt(call, i).name
        result == call.tasks[i].res[1]
        n == (IF MapHas(call.counts, name) THEN call.counts[name] ELSE 0) + 1
    IN  [call |-> [call EXCEPT !.pc = "returned",
                               !.result = Some(result),
                               !.counts = MapSet(@, name,
                                   IF n >= config.consecutive_success THEN 0 ELSE n)],
         cache |-> IF config.cache.enabled
                   THEN setCache(C, CacheKey(call.input), result, config.cache.ttl, t)
                   ELSE C,
         wrote |-> config.cache.enabled]

\* runConcurrent: providers.map(p => this.tryProvider(input, p)), from provs[i].
RECURSIVE concLaunch(_, _, _, _, _)
concLaunch(call, M, i, t, rnd) ==
    IF i > Len(call.provs)
    THEN [call |-> call, metrics |-> M]
    ELSE LET s == tryProviderStart(M, ConfigOf(call), ProviderAt(call, i),
                                   rnd[call.provs[i]], t)
         IN  concLaunch([call EXCEPT !.tasks[i] = s.task, !.sent = @ + s.sent],
                        s.metrics, i + 1, t, rnd)

\* Mutant of seqFrom: tryProvider is not awaited, so the providers from
\* provs[i] on are all started at once.
seqFrom_NoAwait(call, M, i, t, rnd, q) ==
    IF i > Len(call.provs)
    THEN [call |-> allFailed(call, q), metrics |-> M]
    ELSE concLaunch(call, M, i, t, rnd)

\* runSequential from provs[i] on, up to the next suspension or the return.
RECURSIVE seqFrom(_, _, _, _, _, _)
seqFrom(call, M, i, t, rnd, q) ==
    IF i > Len(call.provs)
    THEN [call |-> allFailed(call, q), metrics |-> M]
    ELSE LET s == tryProviderStart(M, ConfigOf(call), ProviderAt(call, i),
                                   rnd[call.provs[i]], t)
             c2 == [call EXCEPT !.tasks[i] = s.task, !.sent = @ + s.sent]
         IN  IF s.task.st = "fail"
             THEN seqFrom(c2, s.metrics, i + 1, t, rnd, q)
             ELSE [call |-> c2, metrics |-> s.metrics]

\* Mutant of promiseAny: the last task that returns wins.
promiseAny_Last(call, j) ==
    IF call.tasks[j].st = "ok" THEN j ELSE call.first

\* Promise.any once the task j settled: it fulfils with the first task that
\* returns, and stays fulfilled.
promiseAny(call, j) ==
    IF call.tasks[j].st = "ok" /\ call.first = 0 THEN j ELSE call.first

\* Mutant of anySettled: Promise.race, which settles with the first task that
\* settles either way.
anySettled_Race(call) ==
    \E i \in 1..Len(call.tasks) : call.tasks[i].st \in {"ok", "fail"}

\* await Promise.any(promises) can resume: a task returned, or all threw.
anySettled(call) ==
    \/ call.first # 0
    \/ \A i \in 1..Len(call.tasks) : call.tasks[i].st = "fail"

\* Mutant of concReturn: the requests still in flight are aborted.
concReturn_Cancel(call, result) ==
    [call EXCEPT !.pc = "returned", !.result = Some(result),
                 !.tasks = [i \in 1..Len(call.tasks) |->
                              IF call.tasks[i].st = "wait"
                              THEN [call.tasks[i] EXCEPT !.st = "fail", !.start = 0]
                              ELSE call.tasks[i]]]

\* runConcurrent returning the result Promise.any fulfilled with: the other
\* tasks are left as they are.
concReturn(call, result) ==
    [call EXCEPT !.pc = "returned", !.result = Some(result)]

\* Mutant of orchestratorSay: the providers at the head of the list whose
\* counter was set back to 0 are moved behind the others before
\* runSequential starts.
orchestratorSay_Switch(call, M, C, t, rnd, q) ==
    LET config == ConfigOf(call)
        provs == getFilteredProviders(config, call.intent)
        zero(i) == /\ MapHas(call.counts, config.providers[provs[i]].name)
                   /\ call.counts[config.providers[provs[i]].name] = 0
        last == CHOOSE i \in 0..Len(provs) :
                   /\ \A h \in 1..i : zero(h)
                   /\ i < Len(provs) => ~zero(i + 1)
        moved == SubSeq(provs, last + 1, Len(provs)) \o SubSeq(provs, 1, last)
        started == [call EXCEPT !.provs = moved,
                                !.tasks = [i \in 1..Len(moved) |-> NewTask]]
        r == seqFrom([started EXCEPT !.pc = "seq"], M, 1, t, rnd, q)
    IN  [call |-> r.call, metrics |-> r.metrics, cache |-> C]

\* Orchestrator.say(input) of a constructed orchestrator, up to the first
\* suspension or the return.
\* Mutant of orchestratorSay: the cache is not consulted.
orchestratorSay_NoCache(call, M, C, t, rnd, q) ==
    LET config == ConfigOf(call)
        started == [call EXCEPT !.provs = getFilteredProviders(config, call.intent),
                                !.tasks = [i \in 1..Len(getFilteredProviders(config, call.intent))
                                             |-> NewTask]]
    IN  IF config.mode = "concurrent"
        THEN LET r == concLaunch([started EXCEPT !.pc = "conc"], M, 1, t, rnd)
             IN  [call |-> r.call, metrics |-> r.metrics, cache |-> C]
        ELSE LET r == seqFrom([started EXCEPT !.pc = "seq"], M, 1, t, rnd, q)
             IN  [call |-> r.call, metrics |-> r.metrics, cache |-> C]

orchestratorSay(call, M, C, t, rnd, q) ==
    LET config == ConfigOf(call)
        g == IF config.cache.enabled
             THEN getCache(C, CacheKey(call.input), t)
             ELSE [value |-> None, cache |-> C]
        started == [call EXCEPT !.provs = getFilteredProviders(config, call.intent),
                                !.tasks = [i \in 1..Len(getFilteredProviders(config, call.intent))
                                             |-> NewTask]]
    IN  IF g.value # None
        THEN [call |-> [call EXCEPT !.pc = "returned", !.result = g.value, !.hit = TRUE],
              metrics |-> M, cache |-> g.cache]
        ELSE IF config.mode = "concurrent"
        THEN LET r == concLaunch([started EXCEPT !.pc = "conc"], M, 1, t, rnd)
             IN  [call |-> r.call, metrics |-> r.metrics, cache |-> g.cache]
        ELSE LET r == seqFrom([started EXCEPT !.pc = "seq"], M, 1, t, rnd, q)
             IN  [call |-> r.call, metrics |-> r.metrics, cache |-> g.cache]

\* Mutant of newOrchestrator: say keeps one Orchestrator per configuration
\* and uses it again.
newOrchestrator_Kept(n, cs, cfg) ==
    IF \E c \in 1..Len(cs) : cs[c].cfg = cfg
    THEN CHOOSE c \in 1..Len(cs) :
            cs[c].cfg = cfg /\ \A d \in 1..Len(cs) : cs[d].cfg = cfg => c <= d
    ELSE n

\* const orchestrator = new Orchestrator(config, intent) in say, the n-th
\* call after the calls cs: the Orchestrator is the one built by this call.
newOrchestrator(n, cs, cfg) == n

\* this.consecutiveCounts of the Orchestrator built by call o, for call n.
consecutiveCounts(n, cs, o) == IF o = n THEN EmptyMap ELSE cs[o].counts

\* Mutant of sayConfig: the installed configuration is preferred to
\* options.config.
sayConfig_GlobalFirst(options, global) ==
    LET config == IF global # None THEN global ELSE options.config
    IN  IF config = None THEN None
        ELSE IF ~loadConfig(Configs[config[1]]).ok THEN None
        ELSE IF IntentGiven(options.intent)
                /\ ~validateIntent(options.intent, loadConfig(Configs[config[1]]).config)
        THEN None
        ELSE config

\* say(input, options) up to new Orchestrator(config, intent): the index of
\* the configuration the orchestrator is built with, or None when say or the
\* constructor throws.
sayConfig(options, global) ==
    LET config == IF options.config # None THEN options.config ELSE global
    IN  IF config = None THEN None
        ELSE IF ~loadConfig(Configs[config[1]]).ok THEN None
        ELSE IF IntentGiven(options.intent)
                /\ ~validateIntent(options.intent, loadConfig(Configs[config[1]]).config)
        THEN None
        ELSE config

\* ------------------------------------------------------------------- state
VARIABLES
    now,            \* Date.now()
    cache,          \* the Map of the cache module
    METRICS,        \* the METRICS object of the metrics module
    globalConfig,   \* the process-wide configuration: None or Some(index in Configs)
    calls,          \* the say() invocations so far, in the order they were made
    cleared,        \* clearCache ran and setCache has not run since
    got,            \* the last direct getCache: its key, its clock and what it returned
    lastSet,        \* per key, the last direct setCache: its clock, ttl and value
    lastInit,       \* the last initConfig: its argument and whether it returned
    recorded,       \* the direct recordSuccess and recordFailure calls since the last resetMetrics
    returned,       \* what the getMetrics calls returned, as their callers hold it
    arg,            \* the argument a function of the program is applied to
    ret             \* what it returned

vars == <<now, cache, METRICS, globalConfig, calls, cleared, got, lastSet,
          lastInit, recorded, returned, arg, ret>>

Inputs == { <<"Hello world">>, <<"Cached message">> }

\* The modules as loaded: nothing cached, recorded, installed or called.
Loaded ==
    /\ now = 0
    /\ cache = EmptyMap
    /\ METRICS = EmptyMap
    /\ globalConfig = None
    /\ calls = <<>>
    /\ cleared = FALSE
    /\ got = [key |-> <<>>, at |-> 0, value |-> None]
    /\ lastSet = EmptyMap
    /\ lastInit = None
    /\ recorded = <<>>
    /\ returned = <<>>
    /\ ret = None

Init ==
    /\ Loaded
    /\ arg = None

\* The state a step leaves a call in: when say returns in this step, the clock
\* at its return is kept with the call.
Returning(old, new, t) ==
    IF new.pc = "returned" /\ old.pc # "returned"
    THEN [new EXCEPT !.doneAt = t]
    ELSE new

\* Time passes.
Tick(bound) ==
    /\ now < bound
    /\ now' = now + 1
    /\ UNCHANGED <<recorded, returned, cache, METRICS, globalConfig, calls, cleared, got, lastSet,
                   lastInit, arg, ret>>

\* say returned or suspended: call is the call as made, r what
\* Orchestrator.say left.
Said(call, r) ==
    /\ calls' = Append(calls, Returning(call, r.call, now))
    /\ cache' = r.cache
    /\ METRICS' = r.metrics
    /\ UNCHANGED cleared

SayCall(call, rnd, q) == Said(call, orchestratorSay(call, METRICS, cache, now, rnd, q))

\* The call of say on the Orchestrator o for the n-th call, with config.
SayOn(input, options, config, n, o) ==
    \E rnd \in Shuffles(Configs[config]), q \in RandomDraws :
        SayCall([NewCall EXCEPT !.cfg = config, !.input = input,
                                !.intent = IF options.on # None
                                           THEN calls[o].intent
                                           ELSE options.intent,
                                !.given = IF options.on # None
                                          THEN calls[o].given
                                          ELSE options.config,
                                !.afterClear = cleared,
                                !.orch = o,
                                !.counts = consecutiveCounts(n, calls, o)],
                rnd, q)

SayWith(input, options, config) ==
    IF config = None
    THEN /\ calls' = Append(calls, [NewCall EXCEPT !.input = input,
                                                   !.intent = options.intent,
                                                   !.given = options.config])
         /\ UNCHANGED <<cache, METRICS, cleared>>
    ELSE SayOn(input, options, config[1], Len(calls) + 1,
               IF options.on # None THEN options.on[1]
               ELSE newOrchestrator(Len(calls) + 1, calls, config[1]))

\* say(input, options) when options.on is None; orchestrator.say(input)
\* called once more on the Orchestrator that call options.on built otherwise.
Say(input, options, budget) ==
    /\ Len(calls) < budget
    /\ options.on # None =>
          /\ options.on[1] \in 1..Len(calls)
          /\ calls[options.on[1]].cfg # 0
          /\ calls[options.on[1]].orch = options.on[1]
    /\ SayWith(input, options,
               IF options.on # None
               THEN Some(calls[options.on[1]].cfg)
               ELSE sayConfig(options, globalConfig))
    /\ UNCHANGED <<recorded, returned, now, globalConfig, got, lastSet,
                   lastInit, arg, ret>>

\* The calls once call c took a step to new: the consecutiveCounts it leaves
\* are those of its Orchestrator.
Store(c, new) ==
    [i \in 1..Len(calls) |->
        IF i = c THEN new
        ELSE IF i = calls[c].orch THEN [calls[i] EXCEPT !.counts = new.counts]
        ELSE calls[i]]

\* The caller of tryProvider resumed: call is call c as it was, p what
\* tryProvider left, r what runSequential does from there on.
SeqResumed(c, call, p, r) ==
    /\ calls' = Store(c, Returning(call, r.call, now))
    /\ METRICS' = r.metrics
    /\ UNCHANGED <<cache, cleared>>

SeqSucceeded(c, call, p, r) ==
    /\ calls' = Store(c, Returning(call, r.call, now))
    /\ cache' = r.cache
    /\ METRICS' = p.metrics
    /\ cleared' = (cleared /\ ~r.wrote)

Resumed(c, j, call, p, c1, rnd, q) ==
    IF call.pc = "seq"
    THEN IF p.task.st = "ok"
         THEN SeqSucceeded(c, call, p, seqSuccess(c1, cache, j, now))
         ELSE IF p.task.st = "fail"
         THEN SeqResumed(c, call, p, seqFrom(c1, p.metrics, j + 1, now, rnd, q))
         ELSE /\ calls' = Store(c, c1)
              /\ METRICS' = p.metrics
              /\ UNCHANGED <<cache, cleared>>
    ELSE /\ calls' = Store(c,
                        [c1 EXCEPT !.first = promiseAny(c1, j),
                                   !.late = @ \/ (p.task.st # "wait" /\ call.pc = "returned")])
         /\ METRICS' = p.metrics
         /\ UNCHANGED <<cache, cleared>>

\* Task j of call settled into p: its rank among the tasks that returned and
\* the requests it sent are noted in the call.
Settled(call, j, p) ==
    LET rank == Cardinality({i \in 1..Len(call.tasks) : call.tasks[i].st = "ok"}) + 1
    IN  [call EXCEPT !.tasks[j] = IF p.task.st = "ok"
                                  THEN [p.task EXCEPT !.rank = rank]
                                  ELSE p.task,
                     !.sent = @ + p.sent]

Resume(c, j, call, p, rnd, q) == Resumed(c, j, call, p, Settled(call, j, p), rnd, q)

\* The transport settles the request in flight of task j of call c with out.
HttpReturnOf(c, j, out, call) ==
    \E rnd \in Shuffles(ConfigOf(call)), q \in RandomDraws :
        Resume(c, j, call,
               tryProviderResume(METRICS, ConfigOf(call), ProviderAt(call, j),
                                 call.tasks[j], now, out),
               rnd, q)

HttpReturn(c, j, out) ==
    /\ calls[c].tasks[j].st = "wait"
    /\ HttpReturnOf(c, j, out, [calls[c] EXCEPT !.counts = calls[calls[c].orch].counts])
    /\ UNCHANGED <<recorded, returned, now, globalConfig, got, lastSet,
                   lastInit, arg, ret>>

\* Mutant of concCache: the Result of the task that returned last is cached.
concCache_Last(call, C, result, t) ==
    LET config == ConfigOf(call)
        oks == {i \in 1..Len(call.tasks) : call.tasks[i].st = "ok"}
        last == CHOOSE i \in oks : \A k \in oks : call.tasks[k].rank <= call.tasks[i].rank
    IN  IF config.cache.enabled
        THEN setCache(C, CacheKey(call.input), call.tasks[last].res[1], config.cache.ttl, t)
        ELSE C

\* runConcurrent after Promise.any fulfilled with result:
\* if (this.config.cache.enabled) setCache(key, result, ttl).
concCache(call, C, result, t) ==
    LET config == ConfigOf(call)
    IN  IF config.cache.enabled
        THEN setCache(C, CacheKey(call.input), result, config.cache.ttl, t)
        ELSE C

\* runConcurrent resumed after await Promise.any(promises).
ConcSettle(c) ==
    /\ calls[c].pc = "conc"
    /\ anySettled(calls[c])
    /\ \E q \in RandomDraws :
         LET call == calls[c]
             config == ConfigOf(call)
         IN  IF call.first # 0
             THEN LET result == call.tasks[call.first].res[1]
                  IN  /\ calls' = [calls EXCEPT ![c] = Returning(call, concReturn(call, result), now)]
                      /\ cache' = concCache(call, cache, result, now)
                      /\ cleared' = (cleared /\ ~config.cache.enabled)
             ELSE /\ calls' = [calls EXCEPT ![c] = Returning(call, allFailed(call, q), now)]
                  /\ UNCHANGED <<cache, cleared>>
    /\ UNCHANGED <<recorded, returned, now, METRICS, globalConfig, got, lastSet,
                   lastInit, arg, ret>>

\* Mutant of initConfig: a configuration that fails validation uninstalls the
\* one that was installed.
initConfig_ClearOnError(i, global) ==
    IF loadConfig(Configs[i]).ok THEN Some(i) ELSE None

\* globalConfig after initConfig(Configs[i]): the assignment
\* globalConfig = loadConfig(config) does not happen when loadConfig throws.
initConfig(i, global) ==
    IF loadConfig(Configs[i]).ok THEN Some(i) ELSE global

\* initConfig(Configs[i]): globalConfig = loadConfig(config), which throws or
\* returns.
InitConfig(i) ==
    /\ globalConfig' = initConfig(i, globalConfig)
    /\ lastInit' = Some([cfg |-> i, ok |-> loadConfig(Configs[i]).ok])
    /\ UNCHANGED <<recorded, returned, now, cache, METRICS, calls, cleared, got, lastSet, arg, ret>>

\* clearCache().
ClearCache ==
    /\ cache' = clearCache(cache)
    /\ cleared' = TRUE
    /\ lastSet' = EmptyMap
    /\ calls' = [c \in 1..Len(calls) |->
                   IF calls[c].pc \in {"seq", "conc"}
                   THEN [calls[c] EXCEPT !.cut = TRUE]
                   ELSE calls[c]]
    /\ UNCHANGED <<recorded, returned, now, METRICS, globalConfig, got,
                   lastInit, arg, ret>>

\* setCache(key, value, ttl) called on the cache module.
CacheSet(key, value, ttl) ==
    /\ cache' = setCache(cache, key, value, ttl, now)
    /\ lastSet' = MapSet(lastSet, key, [t0 |-> now, ttl |-> ttl, value |-> value])
    /\ cleared' = FALSE
    /\ UNCHANGED <<recorded, returned, now, METRICS, globalConfig, calls, got,
                   lastInit, arg, ret>>

\* getCache(key) called on the cache module.
CacheGet(key) ==
    /\ got' = [key |-> key, at |-> now, value |-> getCache(cache, key, now).value]
    /\ cache' = getCache(cache, key, now).cache
    /\ UNCHANGED <<recorded, returned, now, METRICS, globalConfig, calls, cleared, lastSet,
                   lastInit, arg, ret>>

\* say called with the configuration Configs[i], i in cfgs, or with none.
SayOptions(cfgs) ==
    {[config |-> Some(i), intent |-> NoIntent, on |-> None] : i \in cfgs}
    \cup {[config |-> None, intent |-> NoIntent, on |-> None]}

TransportSettles ==
    \E c \in 1..Len(calls) : \E j \in 1..Len(calls[c].tasks) :
        \E out \in Responses(ProviderAt(calls[c], j).name) : HttpReturn(c, j, out)

\* Orchestration: one say of every configuration against every behaviour of
\* the transport, on a clock that stands still.
OrchestrationCfgs == 1..6

Next ==
    \/ \E input \in Inputs, options \in SayOptions(OrchestrationCfgs) :
          Say(input, options, MaxSays)
    \/ TransportSettles
    \/ \E c \in 1..Len(calls) : ConcSettle(c)

Spec == Init /\ [][Next]_vars

\* The same with a transport that settles every request it was handed and an
\* event loop that runs every continuation that is ready.
Continuations == \E c \in 1..Len(calls) : ConcSettle(c)

SpecLive ==
    /\ Init /\ [][Next]_vars
    /\ WF_vars(TransportSettles)
    /\ WF_vars(Continuations)

\* Cache flow: successive and overlapping says of one prompt to one provider in
\* sequential mode, with the clock running and clearCache called at any moment.
FlowCfgs == {7}
FlowInputs == { <<"Cached message">> }

NextFlow ==
    \/ Tick(MaxTime)
    \/ \E input \in FlowInputs, options \in SayOptions(FlowCfgs) :
          Say(input, options, MaxFlowSays)
    \/ TransportSettles
    \/ ClearCache

SpecFlow == Init /\ [][NextFlow]_vars

\* The cache module alone: setCache, getCache and clearCache called directly,
\* as its tests do, with the clock running.
CacheKeys == {CacheKey(input) : input \in Inputs}
CacheValues ==
    { Result(Some([src |-> "test", text |-> Some("cached response")]), "cached response"),
      Result(Some([src |-> "test", text |-> Some("will expire")]), "will expire") }
CacheTtls == {0, 1, 2}

NextCache ==
    \/ Tick(MaxCacheTime)
    \/ \E key \in CacheKeys, value \in CacheValues, ttl \in CacheTtls :
          CacheSet(key, value, ttl)
    \/ \E key \in CacheKeys : CacheGet(key)
    \/ ClearCache

SpecCache == Init /\ [][NextCache]_vars

\* Cache hit: one say in either mode, of a prompt that setCache stored a
\* Result for or not, with the clock running.
HitCfgs == {7, 8}
HitValues ==
    { Result(Some([src |-> "test", text |-> Some("cached response")]), "cached response") }

NextHit ==
    \/ Tick(MaxTime)
    \/ \E key \in CacheKeys, value \in HitValues, ttl \in {0, 1} :
          CacheSet(key, value, ttl)
    \/ \E input \in Inputs, options \in SayOptions(HitCfgs) :
          Say(input, options, MaxSays)
    \/ TransportSettles
    \/ \E c \in 1..Len(calls) : ConcSettle(c)

SpecHit == Init /\ [][NextHit]_vars

\* Configuration: initConfig and one say, with a configuration of its own or
\* without, with an intent or without, of a prompt that may be cached.
ConfigCfgs == {5, 6, 9, 10, 11, 12, 15}
ConfigIntents ==
    { NoIntent, IntentStr(""), IntentStr("chat"), IntentStr("vision"),
      IntentArr(<<"code", "chat">>), IntentArr(<<"code", "vision">>) }
ConfigInputs == { <<"Hello world">> }

SayOptionsWith(cfgs, intents) ==
    {[config |-> c, intent |-> i, on |-> None] :
        c \in {Some(x) : x \in cfgs} \cup {None}, i \in intents}

NextConfig ==
    \/ \E i \in ConfigCfgs : InitConfig(i)
    \/ \E input \in ConfigInputs, value \in HitValues :
          CacheSet(CacheKey(input), value, 1)
    \/ \E input \in ConfigInputs, options \in SayOptionsWith(ConfigCfgs, ConfigIntents) :
          Say(input, options, MaxSays)
    \/ TransportSettles
    \/ \E c \in 1..Len(calls) : ConcSettle(c)

SpecConfig == Init /\ [][NextConfig]_vars

\* Provider selection alone: getFilteredProviders applied to every list of up
\* to MaxProviders providers and every intent request of the sets below.
ProviderIntents ==
    { NoIntent, IntentStr("chat"), IntentStr("code"), IntentArr(<<"code", "chat">>) }
RequestIntents ==
    { NoIntent, IntentStr(""), IntentStr("chat"), IntentStr("vision"),
      IntentArr(<<>>), IntentArr(<<"code", "chat">>), IntentArr(<<"vision", "code">>) }
ProviderLists ==
    UNION { [1..n -> {[BaseProvider EXCEPT !.intent = i] : i \in ProviderIntents}] :
                n \in 0..MaxProviders }

InitSelect ==
    /\ Loaded
    /\ arg \in {Some([providers |-> l, intent |-> i]) : l \in ProviderLists, i \in RequestIntents}

\* this.getFilteredProviders() of an Orchestrator built with arg.
Select ==
    /\ ret = None
    /\ ret' = Some(getFilteredProviders(arg[1], arg[1].intent))
    /\ UNCHANGED <<recorded, returned, now, cache, METRICS, globalConfig, calls, cleared, got, lastSet,
                   lastInit, arg>>

NextSelect == Select

SpecSelect == InitSelect /\ [][NextSelect]_vars

\* The key policy alone: the strategy switch of tryProvider applied to every
\* descriptor of the sets below and every list of 1 to MaxKeys credentials.
AllKeys == <<"key0", "key1", "key2", "key3", "key4">>
KeyLists == {SubSeq(AllKeys, 1, n) : n \in 1..MaxKeys}
KeyDescriptors ==
    { [BaseProvider EXCEPT !.api_key_fallback_strategy = "first"],
      [BaseProvider EXCEPT !.api_key_fallback_strategy = "all"] }
    \cup { [BaseProvider EXCEPT !.api_key_fallback_strategy = "count",
                                !.api_key_fallback_count = c] : c \in {-1, 0, 1, 2, 5} }
    \cup { [BaseProvider EXCEPT !.api_key_fallback_strategy = "indices",
                                !.api_key_fallback_indices = x] :
              x \in { None, Some(<<>>), Some(<<0, 2, 4>>), Some(<<2, 0>>), Some(<<0, 0>>),
                      Some(<<1>>), Some(<<5, 7>>), Some(<<-1, 3>>) } }
    \cup { [BaseProvider EXCEPT !.api_key_fallback_strategy = "range",
                                !.api_key_fallback_range_start = a,
                                !.api_key_fallback_range_end = b] :
              a \in {None, Some(-1), Some(0), Some(1), Some(2)},
              b \in {None, Some(-2), Some(-1), Some(0), Some(1), Some(10)} }
    \cup { [BaseProvider EXCEPT !.api_key_fallback_strategy = "subset",
                                !.api_key_fallback_subset_count = c,
                                !.api_key_fallback_subset_from = f] :
              c \in {None, Some(0), Some(1), Some(2), Some(3)},
              f \in {None, Some(0), Some(1), Some(2), Some(5)} }

InitKeys ==
    /\ Loaded
    /\ arg \in {Some([provider |-> d, keys |-> k]) : d \in KeyDescriptors, k \in KeyLists}

\* The strategy switch of tryProvider for the provider and credentials of arg.
Trial ==
    /\ ret = None
    /\ \E perm \in Perms(Len(SubsetPool(arg[1].provider, arg[1].keys))) :
          ret' = Some(KeysToTry(arg[1].provider, arg[1].keys, perm))
    /\ UNCHANGED <<recorded, returned, now, cache, METRICS, globalConfig, calls, cleared, got, lastSet,
                   lastInit, arg>>

NextKeys == Trial

SpecKeys == InitKeys /\ [][NextKeys]_vars

\* One provider attempt alone: tryProvider called once, with metrics on or
\* off, for every descriptor of the key policy and one, two or three
\* credentials set in the environment.
AttemptEnvs ==
    { <<"OPENAI_API_KEY">>,
      <<"ANTHROPIC_KEY_1", "EMPTY_KEY", "ANTHROPIC_KEY_2">>,
      <<"OPENAI_API_KEY", "ANTHROPIC_KEY_1", "ANTHROPIC_KEY_2">> }

InitAttempt ==
    /\ Loaded
    /\ arg \in {Some([provider |-> [d EXCEPT !.name = "attempt", !.api_key_from_env = e],
                       config |-> [BaseConfig EXCEPT !.metrics = b]]) :
                    d \in KeyDescriptors, e \in AttemptEnvs, b \in BOOLEAN}

\* tryProvider(input, provider) up to its first await or its throw.
Attempt ==
    /\ ret = None
    /\ \E perm \in Perms(Len(SubsetPool(arg[1].provider,
                                         availableApiKeys(arg[1].provider)))) :
          /\ ret' = Some(tryProviderStart(METRICS, arg[1].config, arg[1].provider, perm, now))
          /\ METRICS' = tryProviderStart(METRICS, arg[1].config, arg[1].provider,
                                         perm, now).metrics
    /\ UNCHANGED <<recorded, returned, now, cache, globalConfig, calls, cleared, got,
                   lastSet, lastInit, arg>>

NextAttempt == Attempt

SpecAttempt == InitAttempt /\ [][NextAttempt]_vars

\* Providers without a credential: one say, in either mode, to a provider whose
\* credential variables are empty or unset and to one that names none.
LocalCfgs == {3, 4, 13, 14}

NextLocal ==
    \/ \E input \in Inputs, options \in SayOptions(LocalCfgs) :
          Say(input, options, MaxSays)
    \/ TransportSettles
    \/ \E c \in 1..Len(calls) : ConcSettle(c)

SpecLocal == Init /\ [][NextLocal]_vars

\* Failover: the transport answers every request with a status, 200 with text
\* or an error status, as the failover tests mock it.
StatusResponses(name) ==
    { HttpResponse(TRUE, 200, name, Some("hello")),
      HttpResponse(FALSE, 500, name, Some("hello")),
      HttpResponse(FALSE, 401, name, None) }

StatusSettles ==
    \E c \in 1..Len(calls) : \E j \in 1..Len(calls[c].tasks) :
        \E out \in StatusResponses(ProviderAt(calls[c], j).name) : HttpReturn(c, j, out)

FailCfgs == {1, 2, 9, 10}

NextFail ==
    \/ \E input \in Inputs, options \in SayOptions(FailCfgs) :
          Say(input, options, MaxSays)
    \/ StatusSettles
    \/ \E c \in 1..Len(calls) : ConcSettle(c)

SpecFail == Init /\ [][NextFail]_vars

\* One Orchestrator used for several says: orchestrator.say called again on
\* an Orchestrator that say built, in sequential mode with the cache off and
\* a threshold of 2, every request answered with a status.
InstanceCfgs == {16}
InstanceIntents == { IntentArr(<<"code", "chat">>) }

\* orchestrator.say on the Orchestrator that call c0 built.
SayAgain(n) == {[config |-> None, intent |-> NoIntent, on |-> Some(c0)] : c0 \in 1..n}

NextInstance ==
    \/ \E input \in ConfigInputs,
          options \in SayOptionsWith(InstanceCfgs, InstanceIntents) \cup SayAgain(MaxInstanceSays) :
          Say(input, options, MaxInstanceSays)
    \/ StatusSettles

SpecInstance == Init /\ [][NextInstance]_vars

\* Successive public says: say called up to MaxInstanceSays times, each call
\* with a configuration of its own, in sequential mode with a threshold of 2
\* or of 1 and no cache, every request answered with a status.
FreshCfgs == {16, 17}
FreshIntents == {IntentArr(<<"code", "chat">>)}

NextFresh ==
    \/ \E input \in ConfigInputs, options \in SayOptionsWith(FreshCfgs, FreshIntents) :
          Say(input, options, MaxInstanceSays)
    \/ StatusSettles

SpecFresh == Init /\ [][NextFresh]_vars

\* Sharing: two says of the same or of different prompts, one in sequential
\* mode to one provider with no intent, one in concurrent mode to another
\* provider with an intent, every request answered with a status, with the
\* clock running.
ShareOptions ==
    { [config |-> Some(7), intent |-> NoIntent, on |-> None],
      [config |-> Some(20), intent |-> IntentStr("chat"), on |-> None] }

NextShare ==
    \/ Tick(MaxTime)
    \/ \E input \in Inputs, options \in ShareOptions :
          Say(input, options, MaxFlowSays)
    \/ StatusSettles
    \/ \E c \in 1..Len(calls) : ConcSettle(c)

SpecShare == Init /\ [][NextShare]_vars

\* Toggles: two says of one prompt, in either mode, with everything on, with
\* metrics off or with the cache off, with the clock running.
ToggleCfgs == {7, 8, 18, 19}

\* The transport answers with text, with an empty text or with an error
\* status.
ToggleResponses(name) ==
    { HttpResponse(TRUE, 200, name, Some("hello")),
      HttpResponse(TRUE, 200, name, Some("")),
      HttpResponse(FALSE, 500, name, Some("hello")) }

ToggleSettles ==
    \E c \in 1..Len(calls) : \E j \in 1..Len(calls[c].tasks) :
        \E out \in ToggleResponses(ProviderAt(calls[c], j).name) : HttpReturn(c, j, out)

NextToggle ==
    \/ Tick(MaxTime)
    \/ \E input \in ConfigInputs,
          options \in {o \in SayOptions(ToggleCfgs) : o.config # None} :
          Say(input, options, MaxFlowSays)
    \/ ToggleSettles
    \/ \E c \in 1..Len(calls) : ConcSettle(c)

SpecToggle == Init /\ [][NextToggle]_vars

\* Header construction alone: the headers of tryRequest for every header
\* template over the names and values below, with a credential and without.
HeaderNames == {"authorization", "x-api-key", "content-type"}
HeaderValues == { Placeholder, <<"Bearer ", "{api_key}">>, <<"Basic abc">>, <<>> }
HeaderTemplates ==
    {None} \cup {Some(f) : f \in UNION {[S -> HeaderValues] : S \in SUBSET HeaderNames}}
ApiKeys == {None, Some("key0"), Some("key1"), Some("{api_key}")}

InitHeaders ==
    /\ Loaded
    /\ arg \in {Some([provider |-> [BaseProvider EXCEPT !.request_header = t],
                      apiKey |-> k]) : t \in HeaderTemplates, k \in ApiKeys}

\* tryRequest up to httpRequest, for the provider and credential of arg.
Build ==
    /\ ret = None
    /\ ret' = Some(buildHeaders(arg[1].provider, arg[1].apiKey))
    /\ UNCHANGED <<recorded, returned, now, cache, METRICS, globalConfig, calls, cleared, got, lastSet,
                   lastInit, arg>>

NextHeaders == Build

SpecHeaders == InitHeaders /\ [][NextHeaders]_vars

\* The metrics module called directly, as its tests do.
MetricsProviders == {"test-provider", "mixed-provider"}
Latencies == {50, 100}

\* The map a caller reads through what getMetrics returned to it.
Deref(held) == IF held.ref = "METRICS" THEN METRICS ELSE held.value

RecordSuccess(provider, latency) ==
    /\ Len(recorded) < MaxOps
    /\ METRICS' = recordSuccess(METRICS, provider, latency)
    /\ recorded' = Append(recorded, [op |-> "recordSuccess", provider |-> provider,
                                     latency |-> latency])
    /\ UNCHANGED <<now, cache, globalConfig, calls, cleared, got, lastSet, lastInit,
                   returned, arg, ret>>

RecordFailure(provider, latency) ==
    /\ Len(recorded) < MaxOps
    /\ METRICS' = recordFailure(METRICS, provider, latency)
    /\ recorded' = Append(recorded, [op |-> "recordFailure", provider |-> provider,
                                     latency |-> latency])
    /\ UNCHANGED <<now, cache, globalConfig, calls, cleared, got, lastSet, lastInit,
                   returned, arg, ret>>

ResetMetrics ==
    /\ METRICS' = resetMetrics(METRICS)
    /\ recorded' = <<>>
    /\ UNCHANGED <<now, cache, globalConfig, calls, cleared, got, lastSet, lastInit,
                   returned, arg, ret>>

GetMetrics ==
    /\ Len(returned) < MaxSnaps
    /\ returned' = Append(returned, getMetrics(METRICS))
    /\ UNCHANGED <<now, cache, METRICS, globalConfig, calls, cleared, got, lastSet,
                   lastInit, recorded, arg, ret>>

\* The caller of getMetrics writes to what it received: it overwrites a
\* field of a stats object (metrics1[provider].success = 999) or deletes a key.
Mutate(i, provider, how) ==
    /\ i \in DOMAIN returned
    /\ provider \in DOMAIN Deref(returned[i])
    /\ LET old == Deref(returned[i])
           new == IF how = "assign" THEN [old EXCEPT ![provider].success = 999]
                  ELSE MapDelete(old, provider)
       IN  IF returned[i].ref = "METRICS"
           THEN METRICS' = new /\ UNCHANGED returned
           ELSE returned' = [returned EXCEPT ![i].value = new] /\ UNCHANGED METRICS
    /\ UNCHANGED <<now, cache, globalConfig, calls, cleared, got, lastSet, lastInit,
                   recorded, arg, ret>>

NextMetrics ==
    \/ \E provider \in MetricsProviders, latency \in Latencies :
           RecordSuccess(provider, latency)
    \/ \E provider \in MetricsProviders, latency \in Latencies :
           RecordFailure(provider, latency)
    \/ ResetMetrics

SpecMetrics == Init /\ [][NextMetrics]_vars

\* The callers of getMetrics at work while the module records.
NextCopy ==
    \/ \E provider \in MetricsProviders : RecordSuccess(provider, 50)
    \/ ResetMetrics
    \/ GetMetrics
    \/ \E i \in 1..MaxSnaps, provider \in MetricsProviders, how \in {"assign", "delete"} :
           Mutate(i, provider, how)

SpecCopy == Init /\ [][NextCopy]_vars

\* ------------------------------------------------------------------ claims
Resolved(c) == calls[c].cfg # 0
ModeOf(c) == ConfigOf(calls[c]).mode
TasksOf(c) == 1..Len(calls[c].tasks)

FixedPlaceholders ==
    { "Music is too loud.. come again?",
      "Say again ... s l o w l y",
      "I'm sorry, I didn't catch that.",
      "Could you repeat that?",
      "Pardon me?" }

\* C1: with a valid configuration, in sequential and in concurrent mode and
\* whatever the transport does (non-success status, no extractable text,
\* exception) on every provider and key, say never throws; when no attempt
\* succeeded it resolves to a Result with raw_response null and one of the
\* five fixed placeholder messages as text.
C1_NeverThrows ==
    \A c \in 1..Len(calls) :
        Resolved(c) =>
            /\ calls[c].pc # "threw"
            /\ ( /\ calls[c].pc = "returned"
                 /\ ~calls[c].hit
                 /\ \A j \in TasksOf(c) : calls[c].tasks[j].st # "ok" )
               => /\ calls[c].result # None
                  /\ calls[c].result[1].raw_response = None
                  /\ calls[c].result[1].text \in FixedPlaceholders

\* Witness of C1: a concurrent say whose three requests (one key of the first
\* provider, two of the second) all failed resolved to the last placeholder.
C1_Witness ==
    \E c \in 1..Len(calls) :
        /\ Resolved(c) /\ ModeOf(c) = "concurrent"
        /\ calls[c].pc = "returned" /\ calls[c].sent = 3
        /\ \A j \in TasksOf(c) : calls[c].tasks[j].st = "fail"
        /\ calls[c].result = Some(Result(None, "Pardon me?"))

\* C2: in sequential mode providers are attempted strictly in selector
\* order: a provider is attempted only after every provider before it has
\* failed, say returns the Result of the first provider whose attempt
\* succeeds, and no provider after that one is attempted.
C2_SequentialOrder ==
    \A c \in 1..Len(calls) :
        (Resolved(c) /\ ModeOf(c) = "synchronous") =>
            /\ \A j \in TasksOf(c) :
                  calls[c].tasks[j].st # "new" =>
                      \A i \in 1..(j - 1) : calls[c].tasks[i].st = "fail"
            /\ \A j \in TasksOf(c) :
                  calls[c].tasks[j].st = "ok" =>
                      /\ calls[c].pc = "returned"
                      /\ calls[c].result = calls[c].tasks[j].res
                      /\ \A i \in (j + 1)..Len(calls[c].tasks) :
                            calls[c].tasks[i].st = "new"
            /\ ( /\ calls[c].pc = "returned" /\ ~calls[c].hit
                 /\ calls[c].result[1].raw_response # None )
               => \E j \in TasksOf(c) : calls[c].tasks[j].st = "ok"

\* Witness of C2: the first provider failed, then the second provider
\* succeeded with its second key, and say returned that Result.
C2_Witness ==
    \E c \in 1..Len(calls) :
        /\ Resolved(c) /\ ModeOf(c) = "synchronous"
        /\ Len(calls[c].tasks) = 2
        /\ calls[c].tasks[1].st = "fail"
        /\ calls[c].tasks[2].st = "ok" /\ calls[c].tasks[2].k = 2
        /\ calls[c].pc = "returned"
        /\ calls[c].result = calls[c].tasks[2].res

\* C3: in concurrent mode say returns the placeholder failure Result only
\* when the task of every selected provider has failed, never while a task is
\* pending or has succeeded.
C3_NoPrematurePlaceholder ==
    \A c \in 1..Len(calls) :
        ( /\ Resolved(c) /\ ModeOf(c) = "concurrent"
          /\ calls[c].pc = "returned" /\ ~calls[c].hit
          /\ calls[c].result[1].raw_response = None )
        => \A j \in TasksOf(c) : calls[c].tasks[j].st = "fail"

\* Witness of C3: one provider failed while the other was pending; the other
\* then succeeded with its second key and say returned the success.
C3_Witness ==
    \E c \in 1..Len(calls) :
        /\ Resolved(c) /\ ModeOf(c) = "concurrent"
        /\ Len(calls[c].tasks) = 2
        /\ calls[c].tasks[1].st = "fail"
        /\ calls[c].tasks[2].st = "ok" /\ calls[c].tasks[2].k = 2
        /\ calls[c].pc = "returned"
        /\ calls[c].result = calls[c].tasks[2].res
        /\ calls[c].result[1].raw_response # None

\* C4: in concurrent mode a task has been launched for every selected
\* provider whenever the orchestration can be observed, and say returns the
\* Result of the task that succeeded first, whatever its position.
C4_FirstSuccessWins ==
    \A c \in 1..Len(calls) :
        (Resolved(c) /\ ModeOf(c) = "concurrent" /\ ~calls[c].hit) =>
            /\ Len(calls[c].tasks) = Len(ConfigOf(calls[c]).providers)
            /\ \A j \in TasksOf(c) : calls[c].tasks[j].st # "new"
            /\ calls[c].pc = "returned" =>
                  \A j \in TasksOf(c) :
                      calls[c].tasks[j].rank = 1 => calls[c].result = calls[c].tasks[j].res

\* Witness of C4: the second provider succeeded first, the first provider
\* succeeded after it, and say returned the Result of the second provider.
C4_Witness ==
    \E c \in 1..Len(calls) :
        /\ Resolved(c) /\ ModeOf(c) = "concurrent"
        /\ Len(calls[c].tasks) = 2
        /\ calls[c].tasks[2].rank = 1 /\ calls[c].tasks[1].rank = 2
        /\ calls[c].pc = "returned"
        /\ calls[c].result = calls[c].tasks[2].res
        /\ calls[c].result # calls[c].tasks[1].res

\* C5: in concurrent mode no task is cancelled, neither when say returns nor
\* after: a request in flight stays in flight until the transport settles it,
\* and its outcome is then recorded in the metrics of its provider.
C5_NoCancellation ==
    [][ \A c \in 1..Len(calls) :
          \A j \in TasksOf(c) :
            ( /\ Resolved(c) /\ ModeOf(c) = "concurrent"
              /\ calls[c].tasks[j].st = "wait" )
            => \/ calls'[c].tasks[j] = calls[c].tasks[j]
               \/ /\ ConfigOf(calls[c]).metrics
                  /\ StatsOf(METRICS', ProviderAt(calls[c], j).name).count
                       > StatsOf(METRICS, ProviderAt(calls[c], j).name).count
      ]_vars

\* Witness of C5: say returned a success and a sibling task settled after
\* that, its failure recorded in the metrics.
C5_Witness ==
    \E c \in 1..Len(calls) :
        /\ Resolved(c) /\ ModeOf(c) = "concurrent"
        /\ calls[c].pc = "returned" /\ calls[c].late
        /\ calls[c].first = 1
        /\ calls[c].tasks[2].st = "fail"
        /\ StatsOf(METRICS, ProviderAt(calls[c], 2).name).failure > 0

SayStep == Len(calls') = Len(calls) + 1
CacheOn(call) == call.cfg # 0 /\ Configs[call.cfg].cache.enabled
Succeeded(call) ==
    /\ call.pc = "returned" /\ ~call.hit
    /\ call.result[1].raw_response # None

\* C6: when caching is enabled and the cache holds an unexpired entry for the
\* prompt, say, in either mode, returns exactly the cached Result at once:
\* no provider is selected, no request is sent, the metrics and the cache are
\* left as they are, and nothing happens for that call afterwards.
C6_CacheHit ==
    [][ /\ SayStep =>
            LET call == calls'[Len(calls')]
                key == CacheKey(call.input)
            IN  ( /\ CacheOn(call)
                  /\ MapHas(cache, key)
                  /\ now <= cache[key].expires )
                => /\ call.pc = "returned"
                   /\ call.result = Some(cache[key].value)
                   /\ call.provs = <<>> /\ call.tasks = <<>>
                   /\ call.sent = 0
                   /\ METRICS' = METRICS
                   /\ cache' = cache
        /\ \A c \in 1..Len(calls) : calls[c].hit => calls'[c] = calls[c]
      ]_vars

\* Witness of C6: a say in concurrent mode was served from the cache at the
\* very clock value its entry expires at.
C6_Witness ==
    \E c \in 1..Len(calls) :
        /\ Resolved(c) /\ ModeOf(c) = "concurrent"
        /\ calls[c].hit /\ calls[c].pc = "returned" /\ calls[c].sent = 0
        /\ MapHas(cache, CacheKey(calls[c].input))
        /\ calls[c].result = Some(cache[CacheKey(calls[c].input)].value)
        /\ calls[c].doneAt = cache[CacheKey(calls[c].input)].expires
        /\ calls[c].doneAt > 0

\* C7 as stated: any two says of one prompt made with caching enabled within
\* the TTL window send at most one request in total.
C7_Original ==
    \A c1 \in 1..Len(calls) : \A c2 \in 1..Len(calls) :
        ( /\ c1 < c2
          /\ CacheOn(calls[c1]) /\ CacheOn(calls[c2])
          /\ calls[c1].input = calls[c2].input
          /\ now < ConfigOf(calls[c1]).cache.ttl )
        => calls[c1].sent + calls[c2].sent <= 1

\* C7, amended: a say made with caching enabled after an earlier say of the
\* same prompt returned a success from a provider, within ttl of that return
\* and with no clearCache since the last cache write, sends no request and is
\* served from the cache, so that the requests of the two calls are those of
\* the first.
C7_SecondCallServedFromCache ==
    [][ SayStep =>
          LET call == calls'[Len(calls')]
          IN  ( /\ CacheOn(call) /\ ~cleared
                /\ \E c1 \in 1..Len(calls) :
                      /\ CacheOn(calls[c1]) /\ Succeeded(calls[c1])
                      /\ calls[c1].input = call.input
                      /\ now <= calls[c1].doneAt + ConfigOf(calls[c1]).cache.ttl )
              => /\ call.hit /\ call.pc = "returned"
                 /\ call.sent = 0
                 /\ METRICS' = METRICS
      ]_vars

\* Witness of C7: the first say sent one request and succeeded, the second
\* was served from the cache when the entry was about to expire, and one
\* request was sent over both.
C7_Witness ==
    \E c1 \in 1..Len(calls) : \E c2 \in 1..Len(calls) :
        /\ c1 < c2
        /\ CacheOn(calls[c1]) /\ Succeeded(calls[c1]) /\ calls[c1].sent = 1
        /\ calls[c2].input = calls[c1].input
        /\ calls[c2].hit /\ calls[c2].sent = 0
        /\ calls[c2].doneAt = calls[c1].doneAt + ConfigOf(calls[c1]).cache.ttl

\* C8: clearCache removes every entry, so that until the next cache write
\* getCache finds nothing for any key, and a say made then with a prompt that
\* an earlier say cached misses the cache and sends a request again.
C8_ClearCacheForcesMiss ==
    [][ /\ cleared' => DOMAIN cache' = {}
        /\ SayStep =>
              LET call == calls'[Len(calls')]
              IN  ( /\ CacheOn(call) /\ cleared
                    /\ \E c1 \in 1..Len(calls) :
                          /\ CacheOn(calls[c1]) /\ Succeeded(calls[c1])
                          /\ calls[c1].input = call.input )
                  => /\ ~call.hit
                     /\ call.sent >= 1
      ]_vars

\* Witness of C8: a say cached its success, clearCache ran, and a second say
\* of the same prompt, made while the entry would still have been valid, sent
\* a request of its own.
C8_Witness ==
    \E c1 \in 1..Len(calls) : \E c2 \in 1..Len(calls) :
        /\ c1 < c2
        /\ CacheOn(calls[c1]) /\ Succeeded(calls[c1])
        /\ calls[c2].input = calls[c1].input
        /\ calls[c2].afterClear /\ ~calls[c2].hit /\ calls[c2].sent >= 1
        /\ Succeeded(calls[c2])
        /\ calls[c2].doneAt <= calls[c1].doneAt + ConfigOf(calls[c1]).cache.ttl

GetStep == got' # got

\* C9 as stated: an entry stored by set(key, value, T) at t0 is returned by
\* get at t when t - t0 < T and is absent when t - t0 >= T.
C9_Original ==
    [][ (GetStep /\ MapHas(lastSet, got'.key)) =>
          LET s == lastSet[got'.key]
          IN  /\ now - s.t0 < s.ttl => got'.value = Some(s.value)
              /\ now - s.t0 >= s.ttl => got'.value = None
      ]_vars

\* C9, amended: an entry stored by set(key, value, T) at t0 is returned by
\* get at every t with t - t0 <= T, exactly T included, and is absent for
\* every t with t - t0 > T.
C9_TtlBoundary ==
    [][ (GetStep /\ MapHas(lastSet, got'.key)) =>
          LET s == lastSet[got'.key]
          IN  /\ now - s.t0 <= s.ttl => got'.value = Some(s.value)
              /\ now - s.t0 > s.ttl => got'.value = None
      ]_vars

\* Witness of C9: a get made exactly T > 0 after the set returned the value.
C9_Witness ==
    /\ MapHas(lastSet, got.key)
    /\ lastSet[got.key].ttl > 0
    /\ got.at - lastSet[got.key].t0 = lastSet[got.key].ttl
    /\ got.value = Some(lastSet[got.key].value)

\* C10: expiresAt is the clock of the last set plus its ttl; get returns the
\* stored value only while now <= expiresAt, and then leaves the map alone; a
\* get at now > expiresAt returns absent and removes the entry, so that later
\* gets find nothing until the key is set again.
C10_GetEvicts ==
    [][ /\ \A k \in DOMAIN cache' :
              MapHas(lastSet', k) =>
                  cache'[k].expires = lastSet'[k].t0 + lastSet'[k].ttl
        /\ GetStep =>
              LET k == got'.key
              IN  /\ got'.value # None =>
                        /\ MapHas(cache, k)
                        /\ now <= cache[k].expires
                        /\ got'.value = Some(cache[k].value)
                        /\ cache' = cache
                  /\ (MapHas(cache, k) /\ now > cache[k].expires) =>
                        /\ got'.value = None
                        /\ ~MapHas(cache', k)
                        /\ getCache(cache', k, now).value = None
                  /\ ~MapHas(cache, k) => got'.value = None
      ]_vars

\* Witness of C10: a get made after expiresAt returned absent and the entry
\* is gone from the map.
C10_Witness ==
    /\ MapHas(lastSet, got.key)
    /\ got.at > lastSet[got.key].t0 + lastSet[got.key].ttl
    /\ got.value = None
    /\ ~MapHas(cache, got.key)

Range(s) == {s[i] : i \in 1..Len(s)}

\* The configuration say(input, options) runs with when one is available:
\* options.config when given, the installed one otherwise.
Chosen(call) == IF call.given # None THEN call.given ELSE globalConfig

\* C11: when the configuration say runs with has an all_intents whitelist and
\* the intent passed to say, or one of the list passed, is not in it, say
\* throws before anything else happens: no provider is selected, no request
\* is sent, the cache and the metrics stay as they are, even when the cache
\* holds a Result for the prompt; and nothing happens for that call later.
C11_IntentNotAllowed ==
    [][ /\ SayStep =>
            LET call == calls'[Len(calls')]
                config == Configs[Chosen(call)[1]]
            IN  ( /\ Chosen(call) # None
                  /\ loadConfig(config).ok
                  /\ config.all_intents # None
                  /\ IntentGiven(call.intent)
                  /\ ~(Range(call.intent.v) \subseteq Range(config.all_intents[1])) )
                => /\ call.pc = "threw"
                   /\ call.result = None
                   /\ call.tasks = <<>> /\ call.sent = 0
                   /\ cache' = cache
                   /\ METRICS' = METRICS
        /\ \A c \in 1..Len(calls) : calls[c].pc = "threw" => calls'[c] = calls[c]
      ]_vars

\* Witness of C11: say threw for a list holding an allowed and a disallowed
\* intent while the cache held an unexpired Result for the prompt.
C11_Witness ==
    \E c \in 1..Len(calls) :
        /\ calls[c].pc = "threw"
        /\ calls[c].given = Some(10)
        /\ calls[c].intent = IntentArr(<<"code", "vision">>)
        /\ MapHas(cache, CacheKey(calls[c].input))
        /\ now <= cache[CacheKey(calls[c].input)].expires
        /\ METRICS = EmptyMap

\* A configuration error of the configurations at hand: a mode outside the
\* enumeration, or a provider intent outside the all_intents whitelist.
Malformed(cfg) ==
    \/ cfg.mode \notin {"synchronous", "concurrent"}
    \/ /\ cfg.all_intents # None
       /\ \E i \in 1..Len(cfg.providers) :
             /\ IntentGiven(cfg.providers[i].intent)
             /\ ~(Range(cfg.providers[i].intent.v) \subseteq Range(cfg.all_intents[1]))

\* C12 as stated: a configuration with an empty provider list is a fatal
\* configuration error: initConfig throws for it and no say runs with it.
C12_Original ==
    /\ lastInit # None =>
          (Configs[lastInit[1].cfg].providers = <<>> => ~lastInit[1].ok)
    /\ \A c \in 1..Len(calls) :
          Resolved(c) => ConfigOf(calls[c]).providers # <<>>

\* C12, amended: an empty provider list is no configuration error. The fatal
\* ones are a mode outside the enumeration and a provider intent outside the
\* whitelist: initConfig throws for exactly those and installs nothing, and a
\* say given such a configuration throws, with no Result and no request.
C12_FatalConfigErrors ==
    /\ lastInit # None => (lastInit[1].ok <=> ~Malformed(Configs[lastInit[1].cfg]))
    /\ globalConfig # None => ~Malformed(Configs[globalConfig[1]])
    /\ \A c \in 1..Len(calls) :
          (calls[c].given # None /\ Malformed(Configs[calls[c].given[1]])) =>
              /\ calls[c].pc = "threw"
              /\ calls[c].result = None
              /\ calls[c].sent = 0

\* Witness of C12: initConfig installed the configuration with no provider,
\* a later initConfig with a provider intent outside the whitelist threw, and
\* a say given an invalid mode threw.
C12_Witness ==
    /\ globalConfig = Some(5)
    /\ lastInit = Some([cfg |-> 11, ok |-> FALSE])
    /\ \E c \in 1..Len(calls) :
          /\ calls[c].given = Some(12)
          /\ calls[c].pc = "threw"

\* C13: a configuration with an empty provider list is installed by
\* initConfig without an error, and a say that runs with it and finds nothing
\* cached for the prompt, in sequential as in concurrent mode, selects no
\* provider, sends no request, records nothing, never throws, and returns a
\* placeholder Result: raw_response null and one of the fixed messages.
C13_NoProviders ==
    /\ ( /\ lastInit # None
         /\ Configs[lastInit[1].cfg].providers = <<>>
         /\ Configs[lastInit[1].cfg].mode \in {"synchronous", "concurrent"} )
       => /\ lastInit[1].ok
          /\ globalConfig = Some(lastInit[1].cfg)
    /\ \A c \in 1..Len(calls) :
          ( /\ Resolved(c) /\ ~calls[c].hit
            /\ ConfigOf(calls[c]).providers = <<>> )
          => /\ calls[c].tasks = <<>> /\ calls[c].sent = 0
             /\ \/ /\ calls[c].pc = "returned"
                   /\ calls[c].result[1].raw_response = None
                   /\ calls[c].result[1].text \in FixedPlaceholders
                \/ /\ calls[c].pc = "conc"
                   /\ ModeOf(c) = "concurrent"
                   /\ ENABLED ConcSettle(c)
    /\ (\A c \in 1..Len(calls) : Resolved(c) => ConfigOf(calls[c]).providers = <<>>)
       => METRICS = EmptyMap

\* Witness of C13: initConfig installed the concurrent configuration with no
\* provider and a say without a configuration of its own returned a
\* placeholder.
C13_Witness ==
    /\ globalConfig = Some(6)
    /\ \E c \in 1..Len(calls) :
          /\ calls[c].given = None /\ calls[c].cfg = 6
          /\ calls[c].pc = "returned" /\ calls[c].sent = 0
          /\ calls[c].result = Some(Result(None, "Music is too loud.. come again?"))

\* The intent passed to say is acceptable to a configuration.
Allowed(intent, cfg) ==
    \/ ~IntentGiven(intent)
    \/ cfg.all_intents = None
    \/ Range(intent.v) \subseteq Range(cfg.all_intents[1])

RefMatchCount(i) ==
    Cardinality({k \in 1..Len(arg[1].intent.v) :
                    arg[1].intent.v[k] \in Range(arg[1].providers[i].intent.v)})

RefMatched == {i \in 1..Len(arg[1].providers) : RefMatchCount(i) >= 1}

\* C15: getFilteredProviders returns the configured list unchanged when no
\* intent is requested; otherwise the providers with matchCount >= 1, by
\* matchCount descending and by configured position among equals; and the
\* configured list unchanged when no provider has matchCount >= 1.
C15_SelectorReference ==
    ret # None =>
        LET n == Len(arg[1].providers)
            r == ret[1]
        IN  IF ~IntentGiven(arg[1].intent) \/ RefMatched = {}
            THEN r = [i \in 1..n |-> i]
            ELSE /\ Len(r) = Cardinality(RefMatched)
                 /\ Range(r) = RefMatched
                 /\ \A a \in 1..Len(r) : \A b \in 1..Len(r) :
                       a < b =>
                          \/ RefMatchCount(r[a]) > RefMatchCount(r[b])
                          \/ /\ RefMatchCount(r[a]) = RefMatchCount(r[b])
                             /\ r[a] < r[b]

\* Witness of C15: of three providers the third matches both requested
\* intents and comes first, the first matches one and follows, the second
\* matches none and is dropped.
C15_Witness ==
    /\ ret = Some(<<3, 1>>)
    /\ Len(arg[1].providers) = 3
    /\ arg[1].intent = IntentArr(<<"code", "chat">>)
    /\ arg[1].providers[1].intent = IntentStr("chat")
    /\ arg[1].providers[2].intent = NoIntent

Strategy == arg[1].provider.api_key_fallback_strategy
Available == arg[1].keys

\* The credentials at the 0-based positions lo..hi of the available list.
Positions(lo, hi) == [i \in 1..(hi - lo + 1) |-> Available[lo + i]]

\* C16 as stated: with indices [0, 2, 4] and exactly 3 credentials the trial
\* list is the credential at index 0 alone.
C16_Original ==
    ( /\ ret # None /\ Strategy = "indices"
      /\ arg[1].provider.api_key_fallback_indices = Some(<<0, 2, 4>>)
      /\ Len(Available) = 3 )
    => ret[1] = <<Available[1]>>

\* C16, amended: with indices [0, 2, 4] the trial list is the credentials at
\* those of the indices 0, 2, 4 that are below the number of credentials, in
\* that order: with exactly 3 credentials, those at index 0 and at index 2,
\* and only index 4 is dropped.
C16_IndicesDropOutOfRange ==
    ( /\ ret # None /\ Strategy = "indices"
      /\ arg[1].provider.api_key_fallback_indices = Some(<<0, 2, 4>>) )
    => ret[1] = CASE Len(Available) >= 5 -> <<Available[1], Available[3], Available[5]>>
                  [] Len(Available) \in {3, 4} -> <<Available[1], Available[3]>>
                  [] OTHER -> <<Available[1]>>

\* Witness of C16: indices [0, 2, 4] against three credentials gave the first
\* and the third.
C16_Witness ==
    /\ ret = Some(<<"key0", "key2">>)
    /\ Strategy = "indices"
    /\ arg[1].provider.api_key_fallback_indices = Some(<<0, 2, 4>>)
    /\ Len(Available) = 3

\* No index of the list is a position of the available list.
NoValidIndex(indices) ==
    \A i \in 1..Len(indices) : ~(indices[i] >= 0 /\ indices[i] < Len(Available))

\* C17: under the indices strategy, when the provider has a credential and
\* the index list is missing, empty, or holds only indices out of range, the
\* trial list is exactly the first available credential.
C17_IndicesFallBackToFirst ==
    ( /\ ret # None /\ Strategy = "indices"
      /\ \/ arg[1].provider.api_key_fallback_indices = None
         \/ NoValidIndex(arg[1].provider.api_key_fallback_indices[1]) )
    => ret[1] = <<Available[1]>>

RangeStart == arg[1].provider.api_key_fallback_range_start
RangeEnd == arg[1].provider.api_key_fallback_range_end

\* C18: under the range strategy with both bounds supplied, the trial list is
\* the available credentials at the positions max(0, start) through
\* min(end, n - 1), in order, n being the number of available credentials;
\* with a bound missing it is the first credential alone.
C18_RangeClamped ==
    (ret # None /\ Strategy = "range") =>
        IF RangeStart # None /\ RangeEnd # None
        THEN ret[1] = Positions(Max(0, RangeStart[1]), Min(RangeEnd[1], Len(Available) - 1))
        ELSE ret[1] = <<Available[1]>>

\* The position in the available list of a credential of the trial list.
PosOf(key) == CHOOSE i \in 1..Len(Available) : Available[i] = key

\* The positions of the trial list increase: it is an ordered sublist of the
\* available list.
Increasing(trial) ==
    \A a \in 1..Len(trial) : \A b \in 1..Len(trial) :
        a < b => PosOf(trial[a]) < PosOf(trial[b])

NoRepeat(trial) ==
    \A a \in 1..Len(trial) : \A b \in 1..Len(trial) :
        a # b => trial[a] # trial[b]

ValidIndex(x) == x >= 0 /\ x < Len(Available)

\* C19 as stated: for every strategy and descriptor the trial list is an
\* ordered sublist of the available list, with no position twice.
C19_Original ==
    ret # None =>
        /\ Range(ret[1]) \subseteq Range(Available)
        /\ Increasing(ret[1])

\* C19, amended: the trial list holds available credentials only. Under
\* first, all, count and range it is an ordered sublist of the available
\* list. Under indices it follows the index list: the credentials at the
\* valid indices, in the order of the index list and as often as an index is
\* listed. Under subset no position occurs twice, in the order of the shuffle.
C19_TrialListOrder ==
    ret # None =>
        /\ Range(ret[1]) \subseteq Range(Available)
        /\ Strategy \in {"first", "all", "count", "range"} => Increasing(ret[1])
        /\ Strategy = "subset" => NoRepeat(ret[1])
        /\ ( /\ Strategy = "indices"
             /\ arg[1].provider.api_key_fallback_indices # None
             /\ arg[1].provider.api_key_fallback_indices # Some(<<>>) )
           => LET valid == SelectSeq(arg[1].provider.api_key_fallback_indices[1], ValidIndex)
              IN  ret[1] = [j \in 1..Len(valid) |-> Available[valid[j] + 1]]

\* Witness of C19: the index list [2, 0] gave the third credential before
\* the first.
C19_Witness ==
    /\ ret = Some(<<"key2", "key0">>)
    /\ Strategy = "indices"
    /\ arg[1].provider.api_key_fallback_indices = Some(<<2, 0>>)

SubsetCount == arg[1].provider.api_key_fallback_subset_count
SubsetFrom == arg[1].provider.api_key_fallback_subset_from

\* C20: under the subset strategy with both parameters supplied
\* (subsetCount >= 0, subsetFrom >= 0), whatever the shuffle, the trial list
\* holds only credentials among the first subsetFrom available ones, holds no
\* position twice, and has min(subsetCount, size of that pool) entries; with
\* a parameter missing it is the first credential alone.
C20_SubsetSample ==
    (ret # None /\ Strategy = "subset") =>
        IF SubsetCount # None /\ SubsetFrom # None
        THEN LET pool == SubSeq(Available, 1, Min(SubsetFrom[1], Len(Available)))
             IN  /\ Range(ret[1]) \subseteq Range(pool)
                 /\ NoRepeat(ret[1])
                 /\ Len(ret[1]) = Min(SubsetCount[1], Len(pool))
        ELSE ret[1] = <<Available[1]>>

\* C21: for a provider with at least one available credential the trial list
\* is the first credential alone under 'first', every available credential in
\* order under 'all', and the first min(N, n) of the n available credentials
\* in order under 'count' with N >= 0, N being 2 when the descriptor leaves
\* it out.
C21_FirstAllCount ==
    ret # None =>
        /\ Strategy = "first" => ret[1] = <<Available[1]>>
        /\ Strategy = "all" => ret[1] = Available
        /\ (Strategy = "count" /\ arg[1].provider.api_key_fallback_count >= 0) =>
              ret[1] = SubSeq(Available, 1,
                              Min(arg[1].provider.api_key_fallback_count, Len(Available)))
        /\ arg[1].provider = [BaseProvider EXCEPT !.api_key_fallback_strategy = "count"] =>
              ret[1] = SubSeq(Available, 1, Min(2, Len(Available)))

\* Witness of C21: 'count' with the default N against three credentials gave
\* the first two.
C21_Witness ==
    /\ ret = Some(<<"key0", "key1">>)
    /\ arg[1].provider = [BaseProvider EXCEPT !.api_key_fallback_strategy = "count"]
    /\ Len(Available) = 3

\* The values of the environment that are credentials.
Credentials == {ProcessEnv[v] : v \in DOMAIN ProcessEnv} \ {""}

\* No piece of a header value is a credential.
NoCredentialIn(headers) ==
    \A h \in DOMAIN headers : Range(headers[h]) \cap Credentials = {}

\* C22: a provider none of whose credential variables holds a non-empty
\* value, or that names no variable, is attempted with exactly one request,
\* whose headers are its template as written, with no credential and no
\* synthesized authorization header; when that request fails the attempt
\* fails at once, with no second request.
C22_NoCredential ==
    [][ \A c \in 1..Len(calls') : \A j \in 1..Len(calls'[c].tasks) :
          LET task == calls'[c].tasks[j]
              provider == ProviderAt(calls'[c], j)
          IN  ( /\ task.st # "new"
                /\ \A i \in 1..Len(provider.api_key_from_env) :
                      \/ ~MapHas(ProcessEnv, provider.api_key_from_env[i])
                      \/ ProcessEnv[provider.api_key_from_env[i]] = "" )
              => /\ task.reqs = 1 /\ task.k = 0 /\ task.keys = <<>>
                 /\ NoCredentialIn(task.hdr)
                 /\ ~MapHas(task.hdr, "authorization")
                 /\ task.hdr = SpreadHeaders(provider)
                 /\ ( /\ c <= Len(calls)
                      /\ calls[c].tasks[j].st = "wait"
                      /\ task # calls[c].tasks[j] )
                    => task.st \in {"ok", "fail"}
      ]_vars

\* Witness of C22: in concurrent mode the provider whose variables are empty
\* or unset was sent one request, with its x-api-key header still the
\* placeholder, and failed when that request failed.
C22_Witness ==
    \E c \in 1..Len(calls) :
        /\ Resolved(c) /\ ModeOf(c) = "concurrent"
        /\ Len(calls[c].tasks) = 2
        /\ ProviderAt(calls[c], 1).name = "unkeyed"
        /\ calls[c].tasks[1].st = "fail"
        /\ calls[c].tasks[1].reqs = 1
        /\ calls[c].tasks[1].hdr["x-api-key"] = Placeholder
        /\ calls[c].sent = 2

Template == arg[1].provider.request_header

\* C23: a request made with a credential carries it in at least one header
\* value: with the template {'authorization': 'Bearer {api_key}'} the
\* authorization header is 'Bearer ' followed by the credential, and with
\* {'x-api-key': '{api_key}'} the x-api-key header is the credential.
C23_CredentialInHeader ==
    (ret # None /\ arg[1].apiKey # None) =>
        /\ \E h \in DOMAIN ret[1] : arg[1].apiKey[1] \in Range(ret[1][h])
        /\ Template = Some([h \in {"authorization"} |-> <<"Bearer ", "{api_key}">>]) =>
              ret[1]["authorization"] = <<"Bearer ", arg[1].apiKey[1]>>
        /\ Template = Some([h \in {"x-api-key"} |-> <<"{api_key}">>]) =>
              ret[1]["x-api-key"] = <<arg[1].apiKey[1]>>

\* The content-type header overlaid with the template of the provider.
Overlaid ==
    LET template == IF Template = None THEN EmptyMap ELSE Template[1]
    IN  [h \in {"content-type"} \cup DOMAIN template |->
            IF h \in DOMAIN template THEN template[h] ELSE <<"application/json">>]

HasPlaceholder == \E h \in DOMAIN Overlaid : Overlaid[h] = <<"{api_key}">>

\* An authorization header is set: present and not the empty string.
AuthorizationSet == "authorization" \in DOMAIN Overlaid /\ Overlaid["authorization"] # <<>>

\* C29 as stated: the bearer header is added exactly when no value was the
\* placeholder and the template has no authorization header, and no value
\* sent is the placeholder.
C29_Original ==
    (ret # None /\ arg[1].apiKey # None) =>
        LET key == arg[1].apiKey[1]
            bearer == ~HasPlaceholder /\ "authorization" \notin DOMAIN Overlaid
        IN  /\ DOMAIN ret[1] = DOMAIN Overlaid \cup (IF bearer THEN {"authorization"} ELSE {})
            /\ \A h \in DOMAIN Overlaid :
                  ret[1][h] = IF Overlaid[h] = <<"{api_key}">> THEN <<key>> ELSE Overlaid[h]
            /\ bearer => ret[1]["authorization"] = <<"Bearer ", key>>
            /\ \A h \in DOMAIN ret[1] : ret[1][h] # <<"{api_key}">>

\* C29: with a credential, the headers sent are the content-type header and
\* the template of the provider, where every value that is exactly the
\* placeholder is replaced by the credential; when no value was the
\* placeholder and no authorization header is set (an empty authorization
\* value counts as not set), authorization is 'Bearer ' plus the credential;
\* otherwise no header is added. No value sent is the placeholder, unless the
\* credential is itself the placeholder text.
C29_HeaderConstruction ==
    (ret # None /\ arg[1].apiKey # None) =>
        LET key == arg[1].apiKey[1]
            bearer == ~HasPlaceholder /\ ~AuthorizationSet
        IN  /\ DOMAIN ret[1] = DOMAIN Overlaid \cup (IF bearer THEN {"authorization"} ELSE {})
            /\ \A h \in DOMAIN Overlaid :
                  (h # "authorization" \/ ~bearer) =>
                      ret[1][h] = IF Overlaid[h] = <<"{api_key}">> THEN <<key>> ELSE Overlaid[h]
            /\ bearer => ret[1]["authorization"] = <<"Bearer ", key>>
            /\ key # "{api_key}" => \A h \in DOMAIN ret[1] : ret[1][h] # <<"{api_key}">>

\* Witness of C29: the placeholder in x-api-key was replaced by the
\* credential, the authorization header of the template was left as written
\* and no bearer header was added.
C29_Witness ==
    /\ ret # None /\ arg[1].apiKey = Some("key1")
    /\ Template = Some([h \in {"authorization", "x-api-key"} |->
                           IF h = "x-api-key" THEN <<"{api_key}">> ELSE <<"Basic abc">>])
    /\ ret[1]["x-api-key"] = <<"key1">>
    /\ ret[1]["authorization"] = <<"Basic abc">>
    /\ ret[1]["content-type"] = <<"application/json">>

\* The direct record calls for a provider since the last reset, by kind.
CallsOf(op, provider) ==
    {i \in DOMAIN recorded : recorded[i].op = op /\ recorded[i].provider = provider}

RECURSIVE LatencySum(_, _)
LatencySum(log, provider) ==
    IF log = <<>> THEN 0
    ELSE LatencySum(Tail(log), provider)
         + (IF Head(log).provider = provider THEN Head(log).latency ELSE 0)

\* The metrics map is what the record calls since the last reset add up to.
Refines ==
    /\ DOMAIN METRICS = {recorded[i].provider : i \in DOMAIN recorded}
    /\ \A p \in DOMAIN METRICS :
          /\ METRICS[p].success = Cardinality(CallsOf("recordSuccess", p))
          /\ METRICS[p].failure = Cardinality(CallsOf("recordFailure", p))
          /\ METRICS[p].count = METRICS[p].success + METRICS[p].failure
          /\ METRICS[p].latency = LatencySum(recorded, p)

\* C24: after any sequence of recordSuccess, recordFailure and resetMetrics
\* the metrics map holds exactly the providers recorded since the last reset,
\* each with success and failure equal to the numbers of recordSuccess and
\* recordFailure calls, count their sum and latency the sum of the latencies
\* of both kinds; a step that is not a reset decreases no counter, and after
\* resetMetrics the map is empty.
C24_MetricsRefinement ==
    [][ /\ Refines /\ Refines'
        /\ recorded' = <<>> => METRICS' = EmptyMap
        /\ (recorded' # <<>> \/ recorded = <<>>) =>
              \A p \in DOMAIN METRICS :
                 /\ p \in DOMAIN METRICS'
                 /\ METRICS'[p].success >= METRICS[p].success
                 /\ METRICS'[p].failure >= METRICS[p].failure
                 /\ METRICS'[p].count >= METRICS[p].count
                 /\ METRICS'[p].latency >= METRICS[p].latency ]_vars

\* Witness of C24: one success of 100 ms and one failure of 50 ms were
\* recorded for the same provider since the last reset.
C24_Witness ==
    /\ Len(recorded) = 2
    /\ recorded[1] = [op |-> "recordSuccess", provider |-> "mixed-provider", latency |-> 100]
    /\ recorded[2] = [op |-> "recordFailure", provider |-> "mixed-provider", latency |-> 50]
    /\ METRICS = [p \in {"mixed-provider"} |->
                     [success |-> 1, failure |-> 1, latency |-> 150, count |-> 2]]

\* C25: getMetrics returns an independent deep copy. It returns the recorded
\* map; what a caller writes to a returned map or to a stats object in it
\* changes neither the recorded state nor another returned map, and a later
\* record or reset changes no map already returned.
C25_DeepCopy ==
    [][ /\ METRICS' # METRICS => recorded' # recorded
        /\ recorded' # recorded =>
              \A i \in DOMAIN returned : Deref(returned[i])' = Deref(returned[i])
        /\ \A i, j \in DOMAIN returned :
              (i # j /\ Deref(returned[i])' # Deref(returned[i])) =>
                  Deref(returned[j])' = Deref(returned[j])
        /\ Len(returned') > Len(returned) =>
              /\ LET held == returned'[Len(returned')]
                 IN  (IF held.ref = "METRICS" THEN METRICS' ELSE held.value) = METRICS
              /\ \A i \in DOMAIN returned : Deref(returned[i])' = Deref(returned[i]) ]_vars

\* Witness of C25: two maps were returned after one success; the caller
\* overwrote success in the first, and one more success was recorded.
C25_Witness ==
    /\ Len(returned) = 2
    /\ "test-provider" \in DOMAIN Deref(returned[1]) \cap DOMAIN Deref(returned[2])
    /\ Deref(returned[1])["test-provider"].success = 999
    /\ Deref(returned[2])["test-provider"].success = 1
    /\ StatsOf(METRICS, "test-provider").success = 2

\* C26: in either mode every successful attempt of a provider adds one to its
\* consecutive-success counter, which goes back to zero on reaching the
\* threshold: once say has returned, a provider that succeeded once in this
\* Orchestrator has the counter 1 (0 when the threshold is 1), and every
\* counter is between 0 and threshold - 1.
C26_ConsecutiveCounter ==
    \A c \in 1..Len(calls) :
        (Resolved(c) /\ calls[c].pc = "returned"
                     /\ ConfigOf(calls[c]).consecutive_success >= 1) =>
            LET threshold == ConfigOf(calls[c]).consecutive_success
                counts == calls[c].counts
            IN  /\ \A i \in TasksOf(c) :
                      calls[c].tasks[i].st = "ok" =>
                          /\ MapHas(counts, ProviderAt(calls[c], i).name)
                          /\ counts[ProviderAt(calls[c], i).name]
                                = (IF threshold = 1 THEN 0 ELSE 1)
                /\ \A name \in DOMAIN counts : counts[name] \in 0..(threshold - 1)

\* C27: the keys of the trial list are attempted in its order, each with a
\* transport call of its own that carries it: the request for key k + 1 is
\* sent only when the request for key k has failed, a success ends the
\* provider attempt with no further request, and the provider fails only
\* when the request for the last key of the trial list has failed.
C27_KeyLoop ==
    [][ \A c \in 1..Len(calls) : \A j \in 1..Len(calls[c].tasks) :
           LET old == calls[c].tasks[j]
               new == calls'[c].tasks[j]
           IN  /\ new.k >= 1 =>
                     /\ new.reqs = new.k
                     /\ new.keys[new.k] \in Range(new.hdr["authorization"])
               /\ (old.st = "wait" /\ old.k >= 1 /\ new # old) =>
                     /\ new.keys = old.keys
                     /\ \/ new.st = "ok" /\ new.k = old.k /\ new.res # None
                        \/ /\ new.st = "wait"
                           /\ old.k < Len(old.keys)
                           /\ new.k = old.k + 1
                           /\ calls'[c].sent = calls[c].sent + 1
                        \/ new.st = "fail" /\ new.k = old.k /\ old.k = Len(old.keys)
               /\ old.st \in {"ok", "fail"} => new = old ]_vars

\* Witness of C27: the first key of a provider failed and its second key
\* answered, after two requests.
C27_Witness ==
    \E c \in 1..Len(calls) : \E j \in 1..Len(calls[c].tasks) :
        LET task == calls[c].tasks[j]
        IN  /\ task.st = "ok" /\ task.k = 2 /\ task.reqs = 2
            /\ Len(task.keys) = 2
            /\ task.hdr["authorization"] = <<"Bearer ", task.keys[2]>>

\* The keys of a tryProvider call whose request has failed.
FailedKeys(task) == IF task.st \in {"wait", "ok"} THEN task.k - 1 ELSE task.k

\* The failures one tryProvider call is claimed to have recorded so far.
TaskFailures(task) == 2 * FailedKeys(task) + (IF task.st = "fail" THEN 1 ELSE 0)

\* The same, added up over the tryProvider calls for the provider name, from
\* task j of call c on; and the number of those calls that succeeded.
RECURSIVE FailuresFrom(_, _, _)
FailuresFrom(c, j, name) ==
    IF c > Len(calls) THEN 0
    ELSE IF j > Len(calls[c].tasks) THEN FailuresFrom(c + 1, 1, name)
    ELSE (IF ProviderAt(calls[c], j).name = name /\ ConfigOf(calls[c]).metrics
          THEN TaskFailures(calls[c].tasks[j]) ELSE 0)
         + FailuresFrom(c, j + 1, name)

RECURSIVE SuccessesFrom(_, _, _)
SuccessesFrom(c, j, name) ==
    IF c > Len(calls) THEN 0
    ELSE IF j > Len(calls[c].tasks) THEN SuccessesFrom(c + 1, 1, name)
    ELSE (IF /\ ProviderAt(calls[c], j).name = name /\ ConfigOf(calls[c]).metrics
             /\ calls[c].tasks[j].st = "ok"
          THEN 1 ELSE 0)
         + SuccessesFrom(c, j + 1, name)

\* C28: with metrics enabled and every failed request failing with an error
\* status, every provider attempt adds to the failure count and to the count
\* of its provider two per failed key and, once it has failed, one more:
\* 2k + 1 for an attempt whose k trial keys all failed. After one say, a
\* provider with one key under strategy 'first' that failed shows failure = 3,
\* and so does each of two such providers.
C28_FailureCount ==
    /\ \A name \in {"openai", "anthropic", "chat", "coder"} :
          /\ StatsOf(METRICS, name).failure = FailuresFrom(1, 1, name)
          /\ StatsOf(METRICS, name).count
                = FailuresFrom(1, 1, name) + SuccessesFrom(1, 1, name)
    /\ \A c \in 1..Len(calls) : \A j \in TasksOf(c) :
          LET task == calls[c].tasks[j]
              stats == StatsOf(METRICS, ProviderAt(calls[c], j).name)
          IN  (ConfigOf(calls[c]).metrics /\ task.st = "fail") =>
                 /\ TaskFailures(task) = 2 * Len(task.keys) + 1
                 /\ ( /\ Len(calls) = 1
                      /\ ProviderAt(calls[c], j).api_key_fallback_strategy = "first" )
                    => stats.failure = 3 /\ stats.count = 3

\* Witness of C28: two providers with one key each under 'first' both failed
\* with an error status, and each shows three failures.
C28_Witness ==
    \E c \in 1..Len(calls) :
        /\ calls[c].pc = "returned" /\ Len(calls[c].tasks) = 2
        /\ \A j \in TasksOf(c) :
              /\ calls[c].tasks[j].st = "fail" /\ Len(calls[c].tasks[j].keys) = 1
              /\ ProviderAt(calls[c], j).api_key_fallback_strategy = "first"
        /\ StatsOf(METRICS, "chat").failure = 3 /\ StatsOf(METRICS, "chat").count = 3
        /\ StatsOf(METRICS, "coder").failure = 3 /\ StatsOf(METRICS, "coder").count = 3

\* A provider of cfg declares an intent that the whitelist of cfg lacks.
OutsideWhitelist(cfg) ==
    /\ cfg.all_intents # None
    /\ \E i \in 1..Len(cfg.providers) :
          /\ IntentGiven(cfg.providers[i].intent)
          /\ \E k \in 1..Len(IntentArray(cfg.providers[i].intent)) :
                IntentArray(cfg.providers[i].intent)[k] \notin Range(cfg.all_intents[1])

\* A provider of cfg declares an intent and cfg has no whitelist.
IntentsUnlisted(cfg) ==
    /\ cfg.all_intents = None
    /\ cfg.mode \in {"synchronous", "concurrent"}
    /\ \E i \in 1..Len(cfg.providers) : IntentGiven(cfg.providers[i].intent)

\* C30: a configuration with a provider intent outside its all_intents is
\* rejected when it is loaded: initConfig throws and leaves what was
\* installed, and a say given it throws before any provider is selected,
\* with no Result, placeholder or other, and no request. A configuration
\* with no all_intents is accepted whatever its providers declare.
C30_ProviderIntentWhitelist ==
    /\ lastInit # None =>
          /\ OutsideWhitelist(Configs[lastInit[1].cfg]) =>
                ~lastInit[1].ok /\ globalConfig # Some(lastInit[1].cfg)
          /\ IntentsUnlisted(Configs[lastInit[1].cfg]) =>
                lastInit[1].ok /\ globalConfig = Some(lastInit[1].cfg)
    /\ \A c \in 1..Len(calls) :
          calls[c].given # None =>
             /\ OutsideWhitelist(Configs[calls[c].given[1]]) =>
                   /\ calls[c].pc = "threw"
                   /\ calls[c].result = None
                   /\ calls[c].provs = <<>> /\ calls[c].tasks = <<>>
                   /\ calls[c].sent = 0
             /\ IntentsUnlisted(Configs[calls[c].given[1]]) =>
                   calls[c].cfg = calls[c].given[1] /\ calls[c].pc # "threw"

\* Witness of C30: initConfig installed a configuration whose providers
\* declare intents and that has no whitelist, and a say given a configuration
\* whose whitelist lacks the intent of a provider threw.
C30_Witness ==
    /\ lastInit = Some([cfg |-> 15, ok |-> TRUE])
    /\ globalConfig = Some(15)
    /\ \E c \in 1..Len(calls) :
          /\ calls[c].given = Some(11)
          /\ calls[c].pc = "threw"

\* The provider the selector puts first for intent among the providers of
\* cfg: the first one as configured when no intent is requested or none
\* matches, the first of those with the most matches otherwise.
Matches(cfg, intent, i) ==
    IF IntentGiven(cfg.providers[i].intent)
    THEN Cardinality({k \in 1..Len(IntentArray(intent)) :
            IntentArray(intent)[k] \in Range(IntentArray(cfg.providers[i].intent))})
    ELSE 0

SelectorFirst(cfg, intent) ==
    IF ~IntentGiven(intent) \/ \A i \in 1..Len(cfg.providers) : Matches(cfg, intent, i) = 0
    THEN 1
    ELSE CHOOSE i \in 1..Len(cfg.providers) :
            \A j \in 1..Len(cfg.providers) :
               \/ Matches(cfg, intent, j) < Matches(cfg, intent, i)
               \/ Matches(cfg, intent, j) = Matches(cfg, intent, i) /\ i <= j

\* The consecutiveCounts of the Orchestrator that call c runs on.
CountsOf(c) == calls[calls[c].orch].counts

WroteFor(c, input, t) ==
    /\ Succeeded(calls[c]) /\ CacheOn(calls[c])
    /\ calls[c].input = input
    /\ t <= calls[c].doneAt + ConfigOf(calls[c]).cache.ttl

\* C33: the cache entry of a prompt is shared by all says of that prompt. A
\* say with caching enabled, made while a Result that an earlier say wrote for
\* the same prompt has not expired, returns such a Result unchanged and sends
\* nothing, whatever the intents, provider lists and modes of the two calls;
\* and a say is served from the cache only with a Result of an earlier call
\* of the same prompt.
C33_SharedAcrossConfigs ==
    [][ SayStep =>
           LET new == calls'[Len(calls')]
               writers == {c \in 1..Len(calls) : WroteFor(c, new.input, now)}
           IN  /\ (CacheOn(new) /\ writers # {}) =>
                     /\ new.hit /\ new.pc = "returned" /\ new.sent = 0
                     /\ \E c \in writers : new.result = calls[c].result
               /\ new.hit =>
                     \E c \in 1..Len(calls) :
                        calls[c].input = new.input /\ calls[c].result = new.result ]_vars

\* Witness of C33: a say in concurrent mode with an intent got its Result
\* from the local provider, and a say of the same prompt in sequential mode
\* with no intent, configured with another provider, returned that Result.
C33_Witness ==
    /\ Len(calls) = 2
    /\ calls[1].cfg = 20 /\ calls[1].intent = IntentStr("chat") /\ Succeeded(calls[1])
    /\ calls[2].cfg = 7 /\ calls[2].intent = NoIntent
    /\ calls[2].input = calls[1].input
    /\ calls[2].hit /\ calls[2].sent = 0
    /\ calls[2].result = calls[1].result
    /\ calls[2].result[1].raw_response[1].src = "local"

\* Call c returns in this step.
ReturnsNow(c) == calls'[c].pc = "returned" /\ (c > Len(calls) \/ calls[c].pc # "returned")

\* The keys whose entry this step wrote: new, or not what it was.
Written == {k \in DOMAIN cache' : ~MapHas(cache, k) \/ cache'[k] # cache[k]}

\* C32: failure Results are never cached. Every cache entry holds a Result
\* with a raw_response and a non-empty text; a step writes a cache entry only
\* for a call that returns a provider success in that step, with caching
\* enabled, and writes that call's Result under its prompt; a step in which a
\* call returns the failure placeholder writes nothing; and a say with caching
\* enabled, of a prompt for which no call has succeeded with caching enabled,
\* is not served from the cache: it sends a request.
C32_FailuresNotCached ==
    [][ /\ \A k \in DOMAIN cache' :
              /\ cache'[k].value.raw_response # None
              /\ cache'[k].value.text # ""
        /\ \A k \in Written :
              \E c \in 1..Len(calls') :
                 /\ ReturnsNow(c) /\ Succeeded(calls'[c]) /\ CacheOn(calls'[c])
                 /\ k = CacheKey(calls'[c].input)
                 /\ cache'[k].value = calls'[c].result[1]
        /\ (\E c \in 1..Len(calls') :
               ReturnsNow(c) /\ calls'[c].result[1].raw_response = None)
              => Written = {}
        /\ SayStep =>
              LET new == calls'[Len(calls')]
              IN  ( /\ CacheOn(new)
                    /\ \A c \in 1..Len(calls) :
                          ~(Succeeded(calls[c]) /\ CacheOn(calls[c])
                            /\ calls[c].input = new.input) )
                  => ~new.hit /\ new.sent >= 1 /\ new.pc # "returned" ]_vars

\* Witness of C32: the first say returned the failure placeholder with
\* caching enabled, nothing is cached, and a second say of the same prompt
\* sent a request of its own.
C32_Witness ==
    /\ Len(calls) = 2
    /\ CacheOn(calls[1]) /\ calls[1].pc = "returned"
    /\ calls[1].result[1].raw_response = None
    /\ DOMAIN cache = {}
    /\ CacheOn(calls[2]) /\ calls[2].input = calls[1].input
    /\ ~calls[2].hit /\ calls[2].sent >= 1

\* The calls that this step starts or moves.
Stepping == {c \in 1..Len(calls') : c > Len(calls) \/ calls'[c] # calls[c]}

\* C38: a step of a call whose configuration has metrics false leaves the
\* metrics map as it is, whatever the outcome. A step of a call whose
\* configuration has cache.enabled false leaves the cache as it is, entries
\* for its prompt included, the call is never served from the cache, and its
\* say step sends a request.
C38_DisabledFeatures ==
    [][ \A c \in Stepping :
           LET call == calls'[c]
           IN  call.cfg # 0 =>
                  /\ ~ConfigOf(call).metrics => METRICS' = METRICS
                  /\ ~CacheOn(call) =>
                        /\ cache' = cache
                        /\ ~call.hit
                        /\ c > Len(calls) => (call.sent >= 1 /\ call.pc # "returned") ]_vars

\* Witness of C38: a say with metrics false succeeded and was cached, leaving
\* no metrics; then a say of the same prompt with the cache disabled sent a
\* request, succeeded later, and the entry is still the one of the first say.
C38_Witness ==
    /\ Len(calls) = 2
    /\ calls[1].cfg = 18 /\ Succeeded(calls[1])
    /\ calls[2].cfg = 19 /\ Succeeded(calls[2])
    /\ calls[2].input = calls[1].input
    /\ calls[2].sent = 1
    /\ calls[2].doneAt > calls[1].doneAt
    /\ MapHas(cache, CacheKey(calls[1].input))
    /\ cache[CacheKey(calls[1].input)].expires = calls[1].doneAt + 1
    /\ METRICS["openai"].success = 1

Concurrent(call) == call.cfg # 0 /\ ConfigOf(call).mode = "concurrent"

\* C34: in concurrent mode with caching enabled the cache is written only in
\* the step in which the say returns a provider success, and what is written
\* under the prompt is exactly the Result it returns, which is the Result of
\* the task that returned first. A step of a call that has not returned, or
\* of a task that settles after the call returned, leaves the cache as it is.
\* The consecutive-success counters stay empty throughout.
C34_ConcurrentCacheWrite ==
    [][ \A c \in Stepping :
           LET call == calls'[c]
               key == CacheKey(call.input)
           IN  (Concurrent(call) /\ CacheOn(call)) =>
                  /\ call.counts = EmptyMap
                  /\ IF ReturnsNow(c) /\ Succeeded(call)
                     THEN /\ \E i \in 1..Len(call.tasks) :
                               /\ call.tasks[i].rank = 1
                               /\ call.result = call.tasks[i].res
                          /\ MapHas(cache', key)
                          /\ cache'[key].value = call.result[1]
                          /\ \A k \in DOMAIN cache' \ {key} :
                                MapHas(cache, k) /\ cache'[k] = cache[k]
                     ELSE cache' = cache ]_vars

\* Witness of C34: a say in concurrent mode returned the Result of the task
\* that returned first, that Result is the cached one, and another task of
\* the same call returned a different Result after the say had returned.
C34_Witness ==
    \E c \in 1..Len(calls) :
       /\ Concurrent(calls[c]) /\ CacheOn(calls[c]) /\ Succeeded(calls[c])
       /\ calls[c].late
       /\ \E i \in 1..Len(calls[c].tasks) :
             /\ calls[c].tasks[i].st = "ok" /\ calls[c].tasks[i].rank = 2
             /\ calls[c].tasks[i].res # calls[c].result
       /\ MapHas(cache, CacheKey(calls[c].input))
       /\ cache[CacheKey(calls[c].input)].value = calls[c].result[1]

\* C35: clearCache does not stop a say in flight from writing. A say that
\* missed the cache, during which clearCache ran, and whose provider then
\* succeeds writes its Result under its prompt with a fresh expiry; and a say
\* of that prompt made afterwards, before the entry expires and with no
\* further clearCache, is served that Result from the cache and sends nothing.
C35_WriteAfterClear ==
    [][ /\ \A c \in 1..Len(calls) :
              LET call == calls'[c]
                  key == CacheKey(call.input)
              IN  ( /\ calls[c].cut /\ CacheOn(call)
                    /\ ReturnsNow(c) /\ Succeeded(call) )
                  => /\ MapHas(cache', key)
                     /\ cache'[key].value = call.result[1]
                     /\ cache'[key].expires = now + ConfigOf(call).cache.ttl
        /\ SayStep =>
              LET new == calls'[Len(calls')]
              IN  \A c \in 1..Len(calls) :
                     ( /\ calls[c].cut /\ CacheOn(calls[c]) /\ Succeeded(calls[c])
                       /\ CacheOn(new) /\ new.input = calls[c].input
                       /\ ~cleared
                       /\ now <= calls[c].doneAt + ConfigOf(calls[c]).cache.ttl )
                     => new.hit /\ new.sent = 0 /\ new.result = calls[c].result ]_vars

\* Witness of C35: clearCache ran while the first say was in flight and no
\* say was made before its provider succeeded; the second say, made after
\* that, was served from the cache without a request.
C35_Witness ==
    /\ Len(calls) = 2
    /\ calls[1].cut /\ ~calls[1].afterClear /\ Succeeded(calls[1])
    /\ ~calls[2].afterClear
    /\ calls[2].hit /\ calls[2].sent = 0
    /\ calls[2].result = calls[1].result
    /\ MapHas(cache, CacheKey(calls[1].input))

\* The descriptor d, against n available credentials, is one of: indices all
\* out of range; a range that starts after its end (not below -1) or beyond
\* the last credential; count 0; a subset, of a count that is not 0, from the
\* first 0 credentials.
ListedEmpty(d, n) ==
    LET strategy == d.api_key_fallback_strategy
    IN  \/ /\ strategy = "indices"
           /\ d.api_key_fallback_indices # None
           /\ Len(d.api_key_fallback_indices[1]) > 0
           /\ \A i \in 1..Len(d.api_key_fallback_indices[1]) :
                 d.api_key_fallback_indices[1][i] < 0 \/ d.api_key_fallback_indices[1][i] >= n
        \/ /\ strategy = "range"
           /\ d.api_key_fallback_range_start # None /\ d.api_key_fallback_range_end # None
           /\ \/ d.api_key_fallback_range_start[1] >= n
              \/ /\ d.api_key_fallback_range_end[1] >= -1
                 /\ d.api_key_fallback_range_start[1] > d.api_key_fallback_range_end[1]
        \/ strategy = "count" /\ d.api_key_fallback_count = 0
        \/ /\ strategy = "subset"
           /\ d.api_key_fallback_subset_from = Some(0)
           /\ d.api_key_fallback_subset_count \notin {None, Some(0)}

Winner(call) == call.result[1].raw_response[1].src

C39_InstalledConfigKept ==
    [][ /\ (lastInit' # None /\ ~lastInit'[1].ok /\ calls' = calls)
              => globalConfig' = globalConfig
        /\ globalConfig' # None => loadConfig(Configs[globalConfig'[1]]).ok
        /\ Stepping # {} => globalConfig' = globalConfig
        /\ SayStep =>
              LET new == calls'[Len(calls')]
              IN  (new.given = None /\ globalConfig # None) =>
                     /\ new.cfg \in {0, globalConfig[1]}
                     /\ ~IntentGiven(new.intent) => new.cfg = globalConfig[1] ]_vars

\* Witness of C39: a valid configuration is installed, the last initConfig
\* was given an invalid one and threw, and a say given a configuration of its
\* own and a say given none have run, the second with the installed one.
C39_Witness ==
    /\ globalConfig = Some(9)
    /\ lastInit # None /\ ~lastInit[1].ok
    /\ \E c \in 1..Len(calls) :
          /\ calls[c].given = None /\ calls[c].cfg = 9
          /\ calls[c].sent >= 1

\* The most credentials tryProvider tries for the provider: the length of its
\* key-trial list, or 1 when it has no available credential.
TrialLength(provider) ==
    LET keys == availableApiKeys(provider)
        perm == CHOOSE f \in Perms(Len(SubsetPool(provider, keys))) : TRUE
    IN  IF Len(keys) = 0 THEN 1 ELSE Len(KeysToTry(provider, keys, perm))

RECURSIVE TrialSum(_, _)
TrialSum(call, i) ==
    IF i > Len(call.provs) THEN 0
    ELSE TrialLength(ProviderAt(call, i)) + TrialSum(call, i + 1)

\* Requests stay within the trial lists: per task and per call.
WithinTrials ==
    \A c \in 1..Len(calls) :
       /\ calls[c].sent <= TrialSum(calls[c], 1)
       /\ \A i \in 1..Len(calls[c].tasks) :
             calls[c].tasks[i].reqs <= TrialLength(ProviderAt(calls[c], i))

\* Every say has returned or thrown and no task awaits a request; in
\* concurrent mode every task has returned or thrown.
AllSettled ==
    \A c \in 1..Len(calls) :
       /\ calls[c].pc \in {"returned", "threw"}
       /\ \A i \in 1..Len(calls[c].tasks) :
             /\ calls[c].tasks[i].st # "wait"
             /\ Concurrent(calls[c]) /\ ~calls[c].hit => calls[c].tasks[i].st \in {"ok", "fail"}

\* C40: when the transport settles every request, every say ends: it returns
\* a Result or throws the configuration error, and in concurrent mode every
\* task completes, those that settle after the return included. A say hands
\* the transport at most as many requests as the key-trial lists of its
\* selected providers hold together, one for a provider with no available
\* credential, and each task at most as many as the list of its provider.
C40_Termination == []WithinTrials /\ <>[]AllSettled

\* Witness of C40: a say in concurrent mode used up the trial lists of both
\* providers, three requests in all, every task threw and the say returned
\* the failure Result.
C40_Witness ==
    \E c \in 1..Len(calls) :
       /\ Concurrent(calls[c]) /\ calls[c].pc = "returned"
       /\ calls[c].result[1].raw_response = None
       /\ Len(calls[c].tasks) = 2
       /\ \A i \in 1..2 : calls[c].tasks[i].st = "fail"
       /\ calls[c].sent = TrialSum(calls[c], 1)
       /\ calls[c].sent = 3

====
